---- MODULE Spec2Model ----
(***************************************************************************)
(* The rate-limited job queue of the tracking engine (services/queue.js),  *)
(* its callers (index.js: HTTP kicks, cron ticks, startup kick;            *)
(* routes/profiles.js: immediate jobs) and the part of the profile fetch   *)
(* (services/instagram.js) that decides how a failed job is classified.    *)
(*                                                                         *)
(* Time.  The code reads Date.now() only to form differences               *)
(* (Date.now() - lastJobTime, Date.now() - lastRateLimitErrorTime), to     *)
(* order jobs (addedAt) and to build job ids.  The model keeps the         *)
(* differences themselves (sinceLastJob, sinceLastError, the remaining     *)
(* delay of every timer), all in milliseconds and advanced by Tick, and    *)
(* keeps addedAt as the rank of the instant among the instants at which    *)
(* jobs were added.  Elapsed times saturate at the largest value the code  *)
(* compares them with: MAX_BACKOFF_TIME for sinceLastJob, one hour for     *)
(* sinceLastError, which is read only while consecutiveRateLimitErrors > 0 *)
(* (queue.js 112-113) and so advances only then.                           *)
(***************************************************************************)
EXTENDS Integers, Sequences, FiniteSets, TLC

\* ---------------------------------------------------------------- constants
MIN_TIME_BETWEEN_JOBS == 300000
RATE_LIMIT_BACKOFF_MULTIPLIER == 2
MAX_BACKOFF_TIME == 30 * 60 * 1000
RateLimitWindow == 60 * 60 * 1000
StartupKickDelay == 1000
CronBackupDelay == 500
CronFinalBackupDelay == 2000
retries == 3

\* ------------------------------------------------------------------- bounds
MaxJobs == 3         \* jobs created (HTTP requests and tick together)
MaxKicks == 1        \* POST /queue/process requests
MaxRateLimits == 2   \* rate-limited pipeline runs before the upstream relents
StormJobs == 4       \* the same, for the rate-limit storm (StormSpec)
StormRateLimits == 3
LiveJobs == 2        \* the same, for the liveness properties (FairSpec)
LiveRateLimits == 1
MaxDays == 3         \* calendar days the tracking pipeline lives through
MaxRuns == 3         \* trackProfile calls (PipelineSpec)
MaxRunnerRuns == 1   \* daily-metrics runs
FaultRuns == 2       \* the same, with a write the database rejects (FaultSpec)
FaultRunnerRuns == 1
MaxFailures == 1      \* writes the database rejects
MaxShortcodes == 13   \* reels the profile has upstream
MaxReelRuns == 2      \* runs of the reel step
NullViewRuns == 3     \* the same, with unavailable view counts (NullViewSpec)
PostJobs == 2         \* jobs the POST /profiles requests may queue (PostSpec)
MaxCookies == 3       \* cookies loaded from the environment
MaxMarks == 6         \* markCookieFailed calls
MaxSuccesses == 1     \* markCookieSuccess calls
MaxWaits == 3         \* times the clock is read later

Min(a, b) == IF a < b THEN a ELSE b
Max(a, b) == IF a > b THEN a ELSE b

\* the resolution of the clock: one base spacing
Tick == MIN_TIME_BETWEEN_JOBS
Usernames == {"alice", "bob"}
Infinity == RateLimitWindow + Tick
Delays == {k * Tick : k \in 0..(MAX_BACKOFF_TIME \div Tick)}
\* the usernames of the ig_profiles rows a tick enumerates; two rows may
\* carry the same username (one per tracking user)
ProfileLists == {<<"alice", "bob">>, <<"bob", "bob">>}

VARIABLES
  jobQueue,            \* queue.js jobQueue: sequence of job objects
  isProcessing,        \* queue.js isProcessing
  processingJob,       \* queue.js processingJob: serial of the job, 0 for null
  sinceLastJob,        \* Date.now() - lastJobTime; Infinity while lastJobTime = 0
  sinceLastError,      \* Date.now() - lastRateLimitErrorTime, saturated
  consecutiveRateLimitErrors,
  timers,              \* pending setTimeout/setImmediate(processQueue): delay -> count
  running,             \* job objects whose trackProfile call is outstanding
  promise,             \* serial -> state of the job's promise
  settleCalls,         \* serial -> number of resolve/reject calls made
  clock,               \* rank of the current instant among the add instants
  cron,                \* the scheduler tick (index.js cron tasks, /cron/trigger)
  kicksLeft,           \* POST /queue/process requests still to come
  rateLimitsLeft,      \* rate-limited runs the upstream still causes
  everStarted,         \* history: some job has been started
  rateLimited,         \* history: jobs whose latest run was rate-limited
  rlRun,               \* history: rate-limited outcomes in a row
  rlStreak,            \* history: the same, restarted by the one-hour reset
  lastAdd,             \* history: the addJob call of the step just taken
  lastStart,           \* history: the job start of the step just taken
  lastDone,            \* history: the pipeline outcome handled in that step
  calendarDate,        \* the day new Date() falls on
  ig_profiles,         \* profile id -> row of ig_profiles
  ig_profile_snapshots,
  ig_profile_deltas,
  ig_profile_reels,    \* profile id -> row of its reel
  ig_reel_metrics,
  ig_profile_daily_metrics,  \* (profile id, date) -> row
  pipeline,            \* the trackProfile call in progress
  runner,              \* the updateDailyMetricsForAllProfiles call in progress
  updatedAtTrigger,    \* the schema's updated_at trigger is installed
  handles,             \* the usernames requests are made for
  requests,            \* the kinds of request that reach the queue
  runsLeft,            \* trackProfile calls still to come
  failuresLeft,        \* rejected writes still to come
  runnerRunsLeft,      \* daily-metrics runs still to come
  cookieManager,       \* the CookieManager object
  cookieEnv,           \* Date.now() and the calls on the object still to come
  reels,               \* the reels of one profile and the reel step run on them
  posts                \* the POST /profiles requests under way and the
                       \* customTrackingId and userId of the jobs they queued

queueVars == <<jobQueue, isProcessing, processingJob, sinceLastJob, sinceLastError,
          consecutiveRateLimitErrors, timers, running, promise, settleCalls,
          clock, cron, kicksLeft, rateLimitsLeft, everStarted, rateLimited,
          rlRun, rlStreak, lastAdd, lastStart, lastDone>>

dbVars == <<calendarDate, ig_profiles, ig_profile_snapshots, ig_profile_deltas,
            ig_profile_reels, ig_reel_metrics, ig_profile_daily_metrics,
            pipeline, runner, updatedAtTrigger, handles, requests, runsLeft,
            failuresLeft, runnerRunsLeft>>

sideVars == <<cookieManager, cookieEnv, reels, posts>>

vars == <<queueVars, dbVars, sideVars>>

\* ------------------------------------------------------------------ helpers

RECURSIVE Pow(_, _)
Pow(b, e) == IF e = 0 THEN 1 ELSE b * Pow(b, e - 1)

\* setTimeout(processQueue, d) / setImmediate: one more timer, d ms from now
\* (a delay below the clock resolution is due at once)
SetTimeout(tm, d) ==
  LET r == Min((d \div Tick) * Tick, MAX_BACKOFF_TIME)
  IN [tm EXCEPT ![r] = @ + 1]

setImmediate(tm) == SetTimeout(tm, 0)

\* a comparator that leaves the queue in insertion order
Cmp_Unordered(a, b) == 0

\* the comparator of jobQueue.sort
Cmp(a, b) ==
  IF a.immediate /\ ~b.immediate THEN -1
  ELSE IF ~a.immediate /\ b.immediate THEN 1
  ELSE a.addedAt - b.addedAt

RECURSIVE InsertSorted(_, _)
InsertSorted(x, s) ==
  IF s = <<>> THEN <<x>>
  ELSE IF Cmp(s[Len(s)], x) > 0
       THEN Append(InsertSorted(x, SubSeq(s, 1, Len(s) - 1)), s[Len(s)])
       ELSE Append(s, x)

\* Array.prototype.sort with Cmp (stable)
RECURSIVE SortQueue(_)
SortQueue(q) ==
  IF q = <<>> THEN <<>>
  ELSE InsertSorted(q[Len(q)], SortQueue(SubSeq(q, 1, Len(q) - 1)))

\* index of the first element satisfying the find() predicate, 0 if none
RECURSIVE FindFrom(_, _, _)
FindFrom(q, P(_), i) ==
  IF i > Len(q) THEN 0 ELSE IF P(q[i]) THEN i ELSE FindFrom(q, P, i + 1)

Filter(q, P(_)) == SelectSeq(q, P)

\* a dispatcher whose spacing never grows with the rate-limit counter
BackoffTime_Flat(errs) == MIN_TIME_BETWEEN_JOBS

\* the backoff computed at queue.js 114-117 and 188-191
BackoffTime(errs) ==
  Min(MIN_TIME_BETWEEN_JOBS * Pow(RATE_LIMIT_BACKOFF_MULTIPLIER, errs), MAX_BACKOFF_TIME)

\* ------------------------------------------- services/instagram.js: the fetch
\* Error messages are sequences of words, so that toLowerCase() and
\* includes() are computed and not assumed.
MsgRateLimit429 ==
  <<"Instagram", "rate", "limit", "(", "429", ")", ":", "Too", "many",
    "requests", ".", "Please", "wait", "before", "trying", "again", ".">>
MsgDelayMsNotDefined == <<"delayMs", "is", "not", "defined">>
MsgRateLimit401 ==
  <<"Instagram", "rate", "limit", ":", "Please", "wait", "a", "few",
    "minutes", "before", "you", "try", "again", ".">>
MsgRateLimit403 == <<"Instagram", "rate", "limit", ":", "Forbidden">>
MsgLookupFailed ==
  <<"Instagram", "profile", "lookup", "failed", "with", "500", ":",
    "Internal", "Server", "Error">>
MsgSnapshotInsertFailed == <<"Snapshot", "insert", "failed", ":", "timeout">>

\* String.prototype.toLowerCase on one word
LowerWord(w) ==
  CASE w = "Instagram" -> "instagram"
    [] w = "Too" -> "too"
    [] w = "Please" -> "please"
    [] w = "Forbidden" -> "forbidden"
    [] w = "Internal" -> "internal"
    [] w = "Server" -> "server"
    [] w = "Error" -> "error"
    [] w = "Snapshot" -> "snapshot"
    [] w = "delayMs" -> "delayms"
    [] OTHER -> w

toLowerCase(msg) == [i \in 1..Len(msg) |-> LowerWord(msg[i])]

\* String.prototype.includes
includes(msg, pat) ==
  \E i \in 1..(Len(msg) - Len(pat) + 1) : SubSeq(msg, i, i + Len(pat) - 1) = pat

\* What the upstream answers to one attempt of the profile request.
Responses == {"ok", "429+RetryAfter", "429", "401wait", "403", "500"}

\* Upstream behaviours over the attempts of one fetch: the same answer to
\* every attempt, or a rate limit on the first attempt only
Upstreams ==
  { [a \in 0..(retries - 1) |-> r] : r \in Responses }
  \cup { [a \in 0..(retries - 1) |-> IF a = 0 THEN r ELSE "ok"] : r \in {"429", "429+RetryAfter"} }

\* a fetch or pipeline run that returned normally; the `continue` statement
Ok == <<"ok">>
Continue == <<"continue">>

\* One iteration of the retry loop of fetchInstagramProfileData: the value
\* returned is "ok" or the message of the Error thrown out of the function.
\* An error thrown inside the try block is swallowed by the catch on every
\* attempt but the last.
RECURSIVE Attempt(_, _)
Attempt(up, attempt) ==
  LET r == up[attempt]
      last == (attempt = retries - 1)
      \* line 154 reads delayMs, which is declared inside the block of
      \* line 143 only: evaluating it throws a ReferenceError
      thrown ==
        CASE r = "429+RetryAfter" -> IF ~last THEN Continue ELSE MsgRateLimit429
          [] r = "429" -> MsgDelayMsNotDefined
          [] r = "401wait" -> IF ~last THEN Continue ELSE MsgRateLimit401
          [] r = "403" -> MsgRateLimit403
          [] r = "500" -> MsgLookupFailed
          [] OTHER -> Ok
  IN IF thrown = Ok THEN Ok
     ELSE IF last THEN thrown
     ELSE Attempt(up, attempt + 1)

fetchInstagramProfileData(up) == Attempt(up, 0)

\* services/tracking.js trackProfile, as far as the queue sees it: the fetch
\* error is rethrown unchanged; a failure of the profile upsert or of the
\* snapshot insert is thrown; the returned value is (profile, snapshot).
trackProfile(up, dbOk) ==
  LET ig == fetchInstagramProfileData(up)
  IN IF ig # Ok THEN ig
     ELSE IF ~dbOk THEN MsgSnapshotInsertFailed
     ELSE Ok

\* queue.js 179-183
isRateLimitError(message) ==
  \E m \in {toLowerCase(message)} :
     \/ includes(m, <<"rate", "limit">>)
     \/ includes(m, <<"429">>)
     \/ includes(m, <<"too", "many", "requests">>)
     \/ includes(m, <<"wait", "a", "few", "minutes">>)

\* ------------------------------------------------------ services/queue.js
\* The history records of a step in which no addJob call, no job start and
\* no pipeline outcome happened
NoAdd == [waiting |-> 0, inFlight |-> 0, ret |-> 0, appended |-> FALSE]
NoStart == [job |-> 0, first |-> FALSE, gap |-> 0, errs |-> 0, run |-> 0,
            streak |-> 0, settled |-> FALSE, eval |-> FALSE, sinceErr |-> 0]
NoDone == [job |-> 0, kind |-> "none", upstream |-> "none", counted |-> FALSE]

\* The module state as one record, so that a handler that calls addJob or
\* processQueue is the composition of the functions below.
State ==
  [jobQueue |-> jobQueue, isProcessing |-> isProcessing,
   processingJob |-> processingJob, sinceLastJob |-> sinceLastJob,
   sinceLastError |-> sinceLastError,
   consecutiveRateLimitErrors |-> consecutiveRateLimitErrors,
   timers |-> timers, running |-> running, promise |-> promise,
   settleCalls |-> settleCalls, everStarted |-> everStarted,
   rateLimited |-> rateLimited,
   rlRun |-> rlRun, rlStreak |-> rlStreak,
   lastAdd |-> NoAdd, lastStart |-> NoStart, lastDone |-> NoDone]

QueueBecomes(s) ==
  \E v \in {s} :
    /\ jobQueue' = v.jobQueue
    /\ isProcessing' = v.isProcessing
    /\ processingJob' = v.processingJob
    /\ sinceLastJob' = v.sinceLastJob
    /\ sinceLastError' = v.sinceLastError
    /\ consecutiveRateLimitErrors' = v.consecutiveRateLimitErrors
    /\ timers' = v.timers
    /\ running' = v.running
    /\ promise' = v.promise
    /\ settleCalls' = v.settleCalls
    /\ everStarted' = v.everStarted
    /\ rateLimited' = v.rateLimited
    /\ lastAdd' = v.lastAdd
    /\ lastStart' = v.lastStart
    /\ rlRun' = v.rlRun
    /\ rlStreak' = v.rlStreak
    /\ lastDone' = v.lastDone

Becomes(s) == QueueBecomes(s) /\ UNCHANGED <<dbVars, sideVars>>

\* new Promise(...): the first serial not yet used
NewPromise(s) == CHOOSE n \in DOMAIN s.promise :
  s.promise[n] = "none" /\ \A m \in 1..(n - 1) : s.promise[m] # "none"

\* an addJob that never finds an existing job
ExistingJob_None(q, username) == 0

\* jobQueue.find(job => job.username === username && !job.completed)
ExistingJob(q, username) ==
  LET Match(job) == job.username = username /\ ~job.completed
  IN FindFrom(q, Match, 1)

\* history: the job for the username that is waiting in the queue, and the
\* one whose pipeline call is outstanding (its promise; 0 if none)
WaitingFor(s, username) ==
  LET w == {i \in 1..Len(s.jobQueue) :
              /\ s.jobQueue[i].username = username
              /\ s.jobQueue[i].promise \notin {r.promise : r \in s.running}
              /\ s.promise[s.jobQueue[i].promise] = "pending"}
  IN IF w = {} THEN 0 ELSE s.jobQueue[CHOOSE i \in w : \A j \in w : i <= j].promise

RunningFor(s, username) ==
  IF \E r \in s.running : r.username = username
  THEN (CHOOSE r \in s.running : r.username = username).promise
  ELSE 0

\* queue.js addJob (28-73); now is Date.now() as a rank (see clock)
addJob(s, username, immediate, now) ==
  LET existing == ExistingJob(s.jobQueue, username)
      called == [waiting |-> WaitingFor(s, username),
                 inFlight |-> RunningFor(s, username)]
  IN IF existing # 0
     THEN [s EXCEPT !.lastAdd = called @@ [ret |-> s.jobQueue[existing].promise,
                                           appended |-> FALSE]]
     ELSE
       LET jobPromise == NewPromise(s)
           job == [id |-> <<username, now>>, username |-> username,
                   addedAt |-> now, immediate |-> immediate,
                   completed |-> FALSE, promise |-> jobPromise]
           q == Append(s.jobQueue, job)
           wasEmpty == Len(q) = 1
       IN [s EXCEPT
             !.jobQueue = q,
             !.promise = [@ EXCEPT ![jobPromise] = "pending"],
             !.timers = IF immediate \/ (wasEmpty /\ ~s.isProcessing)
                        THEN setImmediate(@) ELSE @,
             !.lastAdd = called @@ [ret |-> jobPromise, appended |-> TRUE]]

\* a dispatcher that never forgets an old rate-limit error
Stale_Never(timeSinceLastError) == FALSE

\* queue.js 122-127: the last rate-limit error is an hour old or more
Stale(timeSinceLastError) == ~(timeSinceLastError < RateLimitWindow)

\* a dispatcher without the isProcessing guard
AlreadyProcessing_Never(s) == FALSE

\* queue.js 81: the guard that keeps the dispatcher single-consumer
AlreadyProcessing(s) == s.isProcessing

\* a dispatcher that never waits between jobs
WaitTime_None(baseWaitTime, timeSinceLastJob) == 0

\* queue.js 130
WaitTime(baseWaitTime, timeSinceLastJob) == Max(0, baseWaitTime - timeSinceLastJob)

\* a finally block that leaves the job in the queue
RemoveJob_Keep(q, id) == q

\* queue.js 218: jobQueue.filter(job => job.id !== nextJob.id)
RemoveJob(q, id) ==
  LET Keep(job) == job.id # id
  IN Filter(q, Keep)

\* jobQueue.filter(job => !job.completed).length (getQueueStatus queueSize)
queueSize(s) ==
  LET Pending(job) == ~job.completed
  IN Len(Filter(s.jobQueue, Pending))

\* queue.js processQueue (78-164), up to the await of trackProfile
processQueue(s) ==
  IF AlreadyProcessing(s) THEN s
  ELSE IF Len(s.jobQueue) = 0 THEN s
  ELSE
    LET sorted == SortQueue(s.jobQueue)
        Pending(job) == ~job.completed
        next == FindFrom(sorted, Pending, 1)
        s1 == [s EXCEPT !.jobQueue = sorted]
    IN IF next = 0 THEN s1
       ELSE
         LET nextJob == sorted[next]
             errs == s.consecutiveRateLimitErrors
             timeSinceLastJob == s.sinceLastJob
             timeSinceLastError == s.sinceLastError
             baseWaitTime == IF errs > 0
                             THEN Max(MIN_TIME_BETWEEN_JOBS, BackoffTime(errs))
                             ELSE MIN_TIME_BETWEEN_JOBS
             reset == errs > 0 /\ Stale(timeSinceLastError)
             s2 == [s1 EXCEPT
                      !.consecutiveRateLimitErrors = IF reset THEN 0 ELSE @,
                      !.rlStreak = IF reset THEN 0 ELSE @]
             waitTime == WaitTime(baseWaitTime, timeSinceLastJob)
         IN IF waitTime > 0 /\ s.sinceLastJob # Infinity
            THEN [s2 EXCEPT !.timers = SetTimeout(@, waitTime),
                            !.lastStart = [NoStart EXCEPT
                                             !.eval = TRUE,
                                             !.errs = errs,
                                             !.sinceErr = timeSinceLastError]]
            ELSE [s2 EXCEPT
                    !.isProcessing = TRUE,
                    !.processingJob = nextJob.promise,
                    !.jobQueue = [@ EXCEPT ![next].completed = TRUE],
                    !.sinceLastJob = 0,
                    !.running = @ \cup {[nextJob EXCEPT !.completed = TRUE]},
                    !.everStarted = TRUE,
                    !.rateLimited = @ \ {nextJob.promise},
                    !.lastStart = [job |-> nextJob.promise,
                                   first |-> ~s.everStarted,
                                   gap |-> timeSinceLastJob,
                                   errs |-> errs,
                                   run |-> s.rlRun,
                                   streak |-> s.rlStreak,
                                   settled |-> s.promise[nextJob.promise] # "pending",
                                   eval |-> TRUE,
                                   sinceErr |-> timeSinceLastError]]

\* index.js 340-352 startProcessing
startProcessing(s) ==
  IF queueSize(s) > 0 /\ ~s.isProcessing THEN processQueue(s) ELSE s

\* nextJob.resolve(result) / nextJob.reject(error): a promise settles once
Settle(s, p, how) ==
  [s EXCEPT !.promise = [@ EXCEPT ![p] = IF @ = "pending" THEN how ELSE @],
            !.settleCalls = [@ EXCEPT ![p] = Min(@ + 1, 2)]]

\* queue.js 213-227: the finally block
Finally(s, nextJob) ==
  LET q == RemoveJob(s.jobQueue, nextJob.id)
  IN [s EXCEPT
        !.isProcessing = FALSE,
        !.processingJob = 0,
        !.jobQueue = q,
        !.running = {r \in @ : r.promise # nextJob.promise},
        !.timers = IF Len(q) > 0 THEN SetTimeout(@, MIN_TIME_BETWEEN_JOBS) ELSE @]

\* nextJob.completed = false (197), on the job object wherever it is queued
Requeue(q, nextJob) ==
  [i \in 1..Len(q) |-> IF q[i].promise = nextJob.promise
                       THEN [q[i] EXCEPT !.completed = FALSE] ELSE q[i]]

\* queue.js processQueue (164-227), from the return of trackProfile on;
\* result is Ok or the message of the error thrown by trackProfile
Continuation(s, nextJob, result) ==
  LET errs == s.consecutiveRateLimitErrors
  IN IF result = Ok
     THEN Finally([Settle(s, nextJob.promise, "resolved") EXCEPT
                     !.consecutiveRateLimitErrors = 0,
                     !.rlRun = 0, !.rlStreak = 0],
                  nextJob)
     ELSE IF isRateLimitError(result)
     THEN Finally([s EXCEPT
                     !.consecutiveRateLimitErrors = errs + 1,
                     !.sinceLastError = 0,
                     !.jobQueue = Requeue(@, nextJob),
                     !.timers = SetTimeout(@, BackoffTime(errs + 1)),
                     !.rateLimited = @ \cup {nextJob.promise},
                     !.rlRun = @ + 1, !.rlStreak = @ + 1],
                  nextJob)
     ELSE Finally([Settle(s, nextJob.promise, "rejected") EXCEPT
                     !.consecutiveRateLimitErrors = 0,
                     !.rlRun = 0, !.rlStreak = 0],
                  nextJob)

\* ------------------------------------------------------- tracking pipeline
\* The ig_* tables of src/unnamed/part_009 and the two writers of them:
\* trackProfile (services/tracking.js) and updateDailyMetricsForAllProfiles
\* (src/unnamed/part_006).  Dates are day numbers; a timestamp is the day it
\* falls on, and rows of one table keep their order of insertion.
ProfileIds == {"p1", "p2"}
Days == 1..MaxDays
Metrics == {"followers", "following", "media_count", "clips_count"}
Zero == [m \in Metrics |-> 0]

\* what the upstream reports for a profile and its reel in one run
IgData(followers, other, views) ==
  [followers |-> followers, following |-> other, media_count |-> other,
   clips_count |-> other, view_count |-> views]
IgDatas == {IgData(100, 0, 10), IgData(107, 5, 12)}

\* the write of a run that the database rejects
Failures == {"none", "snapshot", "last_snapshot_id", "delta", "scrape",
             "reel", "reel_metrics", "daily"}

\* null, where a count may be unavailable (tracking.js 682-684)
Null == -1

\* a ?? b of JavaScript
Coalesce(a, b) == IF a # Null THEN a ELSE b

\* a || b of JavaScript on numbers: 0 and null are falsy
Or0(a, b) == IF a # 0 /\ a # Null THEN a ELSE b

NoProfile == [exists |-> FALSE, username |-> "", tracking_id |-> "",
              user_id |-> "", created_at |-> 0, updated_at |-> 0,
              last_snapshot_id |-> 0]
NoSnapshot == [id |-> 0, profile_id |-> "", captured_at |-> 0, followers |-> 0,
               following |-> 0, media_count |-> 0, clips_count |-> 0]
NoReel == [exists |-> FALSE, view_count |-> 0]
NoMetrics == [reel_id |-> "", captured_at |-> 0, view_count |-> 0]
NoRow == [exists |-> FALSE, open |-> Zero, close |-> Zero, delta |-> Zero,
          views_delta |-> 0]

\* supabase .insert(row) on a table without a key of its own
Insert_Overwrite(table, row) ==
  IF table = <<>> THEN <<row>> ELSE [table EXCEPT ![Len(table)] = row]

Insert(table, row) == Append(table, row)

\* .eq("profile_id", id) / .order(..., { ascending: false }) / .limit(n)
OfProfile(table, profile_id) ==
  SelectSeq(table, LAMBDA r : r.profile_id = profile_id)
Descending(rows) == [i \in 1..Len(rows) |-> rows[Len(rows) + 1 - i]]
Limit(rows, n) == SubSeq(rows, 1, Min(n, Len(rows)))
MaybeSingle(rows, none) == IF rows = <<>> THEN none ELSE rows[1]

\* part_009 166-179: the BEFORE UPDATE trigger on ig_profiles, where it is
\* installed, stamps updated_at on every update of a row
Stamp(row, now, trigger) ==
  IF trigger THEN [row EXCEPT !.updated_at = now] ELSE row

\* what reaches the queue: the scheduler tick and POST /profiles/:username/
\* refresh call addJob(username, ...) without tracking id; POST /profiles
\* carries the tracking_id and user_id of its body, "" for none
Scheduled == [route |-> "cron", tracking_id |-> "", user_id |-> ""]
Refresh == [route |-> "refresh", tracking_id |-> "", user_id |-> ""]
Post(tracking_id, user_id) ==
  [route |-> "post", tracking_id |-> tracking_id, user_id |-> user_id]

\* crypto.randomBytes(8).toString('hex'): an id no row carries
GeneratedIds == <<"g1", "g2", "g3">>
generateTrackingId(profiles) ==
  LET used == {profiles[p].tracking_id : p \in DOMAIN profiles}
      i == CHOOSE i \in 1..Len(GeneratedIds) :
             /\ GeneratedIds[i] \notin used
             /\ \A j \in 1..(i - 1) : GeneratedIds[j] \in used
  IN GeneratedIds[i]

\* .eq(...) on ig_profiles and .maybeSingle(): the row when exactly one
\* matches, null ("") otherwise, with an error when several do
ByUsername(profiles, username) ==
  {p \in DOMAIN profiles : profiles[p].exists /\ profiles[p].username = username}
ByTrackingId(profiles, tracking_id) ==
  {p \in DOMAIN profiles :
     profiles[p].exists /\ profiles[p].tracking_id = tracking_id}
ByUserAndUsername(profiles, username, user_id) ==
  {p \in ByUsername(profiles, username) :
     user_id # "" /\ profiles[p].user_id = user_id}
MaybeSingleId(ids) == IF Cardinality(ids) = 1 THEN CHOOSE p \in ids : TRUE ELSE ""

\* routes/profiles.js 70-94: the tracking id POST /profiles hands to addJob
FinalTrackingId(profiles, request, username) ==
  IF request.route # "post" THEN ""
  ELSE IF request.tracking_id = ""
  THEN LET existingProfile == MaybeSingleId(ByUsername(profiles, username))
       IN IF existingProfile # "" THEN profiles[existingProfile].tracking_id
          ELSE generateTrackingId(profiles)
  ELSE IF \E p \in ByTrackingId(profiles, request.tracking_id) :
            profiles[p].username # username
  THEN generateTrackingId(profiles)
  ELSE request.tracking_id

\* tracking.js 33-58: the tracking id the row will carry
TrackingId(profiles, username, customTrackingId) ==
  IF customTrackingId = ""
  THEN LET existingProfile == MaybeSingleId(ByUsername(profiles, username))
       IN IF existingProfile # "" THEN profiles[existingProfile].tracking_id
          ELSE generateTrackingId(profiles)
  ELSE IF \E p \in ByTrackingId(profiles, customTrackingId) :
            profiles[p].username # username
  THEN generateTrackingId(profiles)
  ELSE customTrackingId

\* tracking.js 61-78: profileData laid over a row
ProfileData(row, username, trackingId, userId) ==
  [row EXCEPT !.exists = TRUE,
              !.username = username,
              !.tracking_id = trackingId,
              !.user_id = IF userId # "" THEN userId ELSE @,
              !.last_snapshot_id = 0]

\* the id a new row gets: ids are handed out in order
ProfileIdOrder == <<"p1", "p2", "p3">>
NewProfileId(profiles) ==
  IF \A p \in DOMAIN profiles : profiles[p].exists THEN ""
  ELSE LET i == CHOOSE i \in 1..Len(ProfileIdOrder) :
                  /\ ProfileIdOrder[i] \in DOMAIN profiles
                  /\ ~profiles[ProfileIdOrder[i]].exists
                  /\ \A j \in 1..(i - 1) :
                        ProfileIdOrder[j] \in DOMAIN profiles
                          => profiles[ProfileIdOrder[j]].exists
       IN ProfileIdOrder[i]

\* tracking.js 83-296: the update of the row found, or the insert of a new
\* one; the row's id, the table afterwards, and whether the step throws
UpsertProfile(profiles, username, customTrackingId, userId, now, trigger) ==
  LET trackingId == TrackingId(profiles, username, customTrackingId)
      write(branch, p, row) ==
        [branch |-> branch, id |-> p, error |-> FALSE,
         table |-> [profiles EXCEPT ![p] = row]]
      insert ==
        write("insert", NewProfileId(profiles),
              [ProfileData(NoProfile, username, trackingId, userId)
                 EXCEPT !.created_at = now, !.updated_at = now])
      existingByTrackingId == MaybeSingleId(ByTrackingId(profiles, customTrackingId))
      existingByUserAndUsername ==
        MaybeSingleId(ByUserAndUsername(profiles, username, userId))
      existingProfile == MaybeSingleId(ByUsername(profiles, username))
  IN IF customTrackingId # ""
     THEN IF existingByTrackingId # ""
          \* 92-101: the row of this tracking id
          THEN write("update", existingByTrackingId,
                     Stamp(ProfileData(profiles[existingByTrackingId], username,
                                       trackingId, userId), now, trigger))
          ELSE IF existingByUserAndUsername # ""
          \* 126-142: a new tracking session on the user's row
          THEN write("reset", existingByUserAndUsername,
                     [ProfileData(profiles[existingByUserAndUsername], username,
                                  trackingId, userId) EXCEPT !.updated_at = now])
          \* 143-170
          ELSE insert
     \* 207-240, 242-295: maybeSingle() fails on several rows of the username
     ELSE IF Cardinality(ByUsername(profiles, username)) > 1
          THEN [branch |-> "error", id |-> "", error |-> TRUE, table |-> profiles]
          ELSE IF existingProfile # ""
          THEN write("update", existingProfile,
                     Stamp(ProfileData(profiles[existingProfile], username,
                                       trackingId, userId), now, trigger))
          ELSE insert

\* tracking.js 303-331
allSnapshots(customTrackingId, table, profile_id) ==
  IF customTrackingId # "" THEN <<>>
  ELSE Limit(Descending(OfProfile(table, profile_id)), 2)

LastSnapshot_Latest(all) ==
  IF Len(all) >= 1 THEN all[1] ELSE NoSnapshot

\* tracking.js 338-356
LastSnapshot(all) ==
  IF Len(all) >= 2 THEN all[2]
  ELSE IF Len(all) = 1 THEN all[1]
  ELSE NoSnapshot

\* tracking.js 390-404
NewSnapshot(table, profile_id, igData, now) ==
  [id |-> Len(table) + 1, profile_id |-> profile_id, captured_at |-> now,
   followers |-> igData.followers, following |-> igData.following,
   media_count |-> igData.media_count, clips_count |-> igData.clips_count]

\* tracking.js 435-466
Delta_Absolute(profile_id, lastSnapshot, newSnapshot) ==
  [profile_id |-> profile_id,
   base_snapshot_id |-> lastSnapshot.id,
   compare_snapshot_id |-> newSnapshot.id,
   followers_diff |-> newSnapshot.followers,
   following_diff |-> newSnapshot.following,
   media_diff |-> newSnapshot.media_count,
   clips_diff |-> newSnapshot.clips_count]

Delta(profile_id, lastSnapshot, newSnapshot) ==
  [profile_id |-> profile_id,
   base_snapshot_id |-> lastSnapshot.id,
   compare_snapshot_id |-> newSnapshot.id,
   followers_diff |-> newSnapshot.followers - lastSnapshot.followers,
   following_diff |-> newSnapshot.following - lastSnapshot.following,
   media_diff |-> newSnapshot.media_count - lastSnapshot.media_count,
   clips_diff |-> newSnapshot.clips_count - lastSnapshot.clips_count]

\* tracking.js 706-727: the growth a reel adds to totalDailyViewsGrowth
ViewGrowth(existingReel, viewCount) ==
  IF existingReel.exists
  THEN Max(viewCount - Or0(existingReel.view_count, 0), 0)
  ELSE 0

\* .eq("profile_id", id).eq("date", date) on ig_profile_daily_metrics
MatchesRow_AnyDate(key, profile_id, date) == key[1] = profile_id

MatchesRow(key, profile_id, date) == key = <<profile_id, date>>

SelectDaily(table, profile_id, date) ==
  IF <<profile_id, date>> \in DOMAIN table
  THEN table[<<profile_id, date>>] ELSE NoRow

\* .update(patch) with that filter: the columns named in the patch are set
UpdateDaily(table, profile_id, date, patch) ==
  [key \in DOMAIN table |->
     IF table[key].exists /\ MatchesRow(key, profile_id, date)
     THEN [f \in DOMAIN table[key] |->
             IF f \in DOMAIN patch THEN patch[f] ELSE table[key][f]]
     ELSE table[key]]

\* .insert(row): PRIMARY KEY (profile_id, date) rejects a second row
InsertDaily(table, profile_id, date, row) ==
  IF <<profile_id, date>> \in DOMAIN table /\ ~table[<<profile_id, date>>].exists
  THEN [table EXCEPT ![<<profile_id, date>>] = row]
  ELSE table

\* tracking.js 894-922: the columns the pipeline sets on today's row
DailyPatch(dailyRow, newSnapshot, totalDailyViewsGrowth) ==
  [close |-> [m \in Metrics |->
                IF m = "followers" THEN newSnapshot.followers
                ELSE Or0(newSnapshot[m], 0)],
   delta |-> [m \in Metrics |->
                IF m = "followers"
                THEN newSnapshot.followers - dailyRow.open.followers
                ELSE Or0(newSnapshot[m], 0)
                       - Or0(dailyRow.open[m], Or0(newSnapshot[m], 0))],
   views_delta |-> totalDailyViewsGrowth]

\* tracking.js 939-940
IsFirstTracking(todayDateString, trackingStartDate, lastSnapshot) ==
  todayDateString = trackingStartDate \/ lastSnapshot.id = 0

\* tracking.js 946-961: yesterday's row of this tracking session
YesterdayRow(table, profile_id, yesterdayStr, trackingStartDate, isFirstTracking) ==
  IF ~isFirstTracking /\ yesterdayStr >= trackingStartDate
  THEN SelectDaily(table, profile_id, yesterdayStr)
  ELSE NoRow

\* tracking.js 942-1017: the row the pipeline inserts for a new day
DailyRow(yesterdayRow, newSnapshot, totalDailyViewsGrowth) ==
  LET open == [m \in Metrics |->
                 IF m = "followers"
                 THEN IF yesterdayRow.exists THEN yesterdayRow.close.followers
                      ELSE newSnapshot.followers
                 ELSE Or0(IF yesterdayRow.exists THEN yesterdayRow.close[m] ELSE 0,
                          Or0(newSnapshot[m], 0))]
      close == [m \in Metrics |->
                  IF m = "followers" THEN newSnapshot.followers
                  ELSE Or0(newSnapshot[m], 0)]
  IN [exists |-> TRUE, open |-> open, close |-> close,
      delta |-> [m \in Metrics |->
                   IF m = "followers"
                   THEN IF yesterdayRow.exists
                        THEN newSnapshot.followers - open.followers ELSE 0
                   ELSE close[m] - open[m]],
      views_delta |-> totalDailyViewsGrowth]

\* part_006 739-758, 766-801: the snapshots the runner reads for a profile
OnDay(rows, day) == SelectSeq(rows, LAMBDA r : r.captured_at = day)
EarlierThan(rows, day) == SelectSeq(rows, LAMBDA r : r.captured_at < day)
FirstOfDay(table, profile_id, day) ==
  MaybeSingle(OnDay(OfProfile(table, profile_id), day), NoSnapshot)
LastOfDay(table, profile_id, day) ==
  MaybeSingle(Descending(OnDay(OfProfile(table, profile_id), day)), NoSnapshot)
Baseline(table, profile_id, today) ==
  LET yesterdaySnapshot == LastOfDay(table, profile_id, today - 1)
  IN IF yesterdaySnapshot.id # 0 THEN yesterdaySnapshot
     ELSE MaybeSingle(Descending(EarlierThan(OfProfile(table, profile_id), today)),
                      NoSnapshot)
Latest(table, profile_id, today) ==
  LET lastSnapshot == LastOfDay(table, profile_id, today)
  IN IF lastSnapshot.id # 0 THEN lastSnapshot
     ELSE MaybeSingle(Descending(OfProfile(table, profile_id)), NoSnapshot)

\* part_006 811-834: a ?? b ?? c on the columns of the snapshots found
RunnerOpen(firstSnapshot, baselineSnapshot, latestSnapshot) ==
  [m \in Metrics |->
     IF firstSnapshot.id # 0 THEN firstSnapshot[m]
     ELSE IF baselineSnapshot.id # 0 THEN baselineSnapshot[m]
     ELSE latestSnapshot[m]]

\* part_006 845-896: growth of the reel between the last metrics before
\* today and the last of today
RunnerViews(metrics, reel_id, today) ==
  LET mine == SelectSeq(metrics, LAMBDA r : r.reel_id = reel_id)
      todayMetrics == MaybeSingle(Descending(OnDay(mine, today)), NoMetrics)
      previousMetrics == MaybeSingle(Descending(EarlierThan(mine, today)), NoMetrics)
  IN IF todayMetrics.reel_id # "" /\ previousMetrics.reel_id # ""
     THEN Max(0, Or0(todayMetrics.view_count, 0)
                   - Or0(previousMetrics.view_count, 0))
     ELSE 0

\* part_006 812-834, 912-929, 946-964: the columns the runner writes
RunnerRow(table, metrics, profile_id, today) ==
  LET latestSnapshot == Latest(table, profile_id, today)
      open == RunnerOpen(FirstOfDay(table, profile_id, today),
                         Baseline(table, profile_id, today), latestSnapshot)
      close == [m \in Metrics |-> latestSnapshot[m]]
  IN [exists |-> TRUE, open |-> open, close |-> close,
      delta |-> [m \in Metrics |-> close[m] - open[m]],
      views_delta |-> RunnerViews(metrics, profile_id, today)]

\* routes/profiles.js 211-336: what GET /profiles/tracking/:tracking_id
\* reads; timestamps are calendar days, so the second taken off updated_at
\* stays within the day
TrackingRead(profiles, snapshots, deltas, daily, today, tracking_id) ==
  LET profile_id == MaybeSingleId(ByTrackingId(profiles, tracking_id))
      trackingStartTime == profiles[profile_id].updated_at
      trackingStartDate == trackingStartTime
      inSession == SelectSeq(OfProfile(snapshots, profile_id),
                             LAMBDA r : r.captured_at >= trackingStartTime)
      created_at(delta) ==
        snapshots[CHOOSE i \in 1..Len(snapshots) :
                    snapshots[i].id = delta.compare_snapshot_id].captured_at
      deltasInSession == SelectSeq(OfProfile(deltas, profile_id),
                                   LAMBDA r : created_at(r) >= trackingStartTime)
      todayMetrics == IF today >= trackingStartDate
                      THEN SelectDaily(daily, profile_id, today) ELSE NoRow
      recent == {key \in DOMAIN daily :
                   /\ key[1] = profile_id /\ daily[key].exists
                   /\ key[2] >= trackingStartDate}
      recentMetrics ==
        IF recent = {} THEN NoRow
        ELSE daily[CHOOSE key \in recent : \A k \in recent : k[2] <= key[2]]
  IN IF profile_id = ""
     THEN [status |-> 404, snapshot |-> NoSnapshot, delta |-> <<>>,
           dailyMetrics |-> NoRow]
     ELSE [status |-> 200,
           snapshot |-> MaybeSingle(Descending(inSession), NoSnapshot),
           delta |-> Limit(Descending(deltasInSession), 1),
           dailyMetrics |-> IF todayMetrics.exists THEN todayMetrics
                            ELSE recentMetrics]

PipelineIdle ==
  [pc |-> "idle", profile_id |-> "", customTrackingId |-> "", branch |-> "",
   igData |-> IgData(0, 0, 0),
   failed |-> "none", updated_at |-> 0, lastSnapshot |-> NoSnapshot,
   newSnapshot |-> NoSnapshot, totalDailyViewsGrowth |-> 0,
   todayDateString |-> 0, dailyRow |-> NoRow, result |-> "none"]

RunnerIdle ==
  [pc |-> "idle", today |-> 0, profiles |-> {}, profile_id |-> "",
   row |-> NoRow, existingMetrics |-> FALSE]

\* nothing tracked yet
DbEmpty ==
  /\ calendarDate = 1
  /\ ig_profiles = [p \in ProfileIds |-> NoProfile]
  /\ ig_profile_snapshots = <<>>
  /\ ig_profile_deltas = <<>>
  /\ ig_profile_reels = [p \in ProfileIds |-> NoReel]
  /\ ig_reel_metrics = <<>>
  /\ ig_profile_daily_metrics = [key \in ProfileIds \X Days |-> NoRow]
  /\ pipeline = PipelineIdle
  /\ runner = RunnerIdle

\* ------------------------------------------------------- cookie rotation
\* README.md 126-127
switchDelay == 60000
cookieResetTime == 60 * 60 * 1000
\* README.md 213: failures after which a cookie is marked permanently failed
PermanentFailures == 3

\* Date.now() when the process starts, and how much later it is read again
ProcessStart == 24 * 60 * 60 * 1000
Waits == {30000, switchDelay, cookieResetTime}

CookieIds == 0..(MaxCookies - 1)

\* README.md 119-135: the object after construction with n cookies loaded;
\* a cookie without an entry in cookieFailureCount or cookieFailureTime has 0
CookieManager(n) ==
  [cookies |-> n, currentIndex |-> 0, failedCookies |-> {},
   cookieFailureCount |-> [i \in CookieIds |-> 0],
   cookieFailureTime |-> [i \in CookieIds |-> 0],
   lastSwitchTime |-> 0]

\* README.md 246-249: the do ... while of switchToNextCookie
RECURSIVE NextAvailable(_, _, _)
NextAvailable(m, index, attempts) ==
  LET currentIndex == (index + 1) % m.cookies
  IN IF currentIndex \in m.failedCookies /\ attempts + 1 < m.cookies
     THEN NextAvailable(m, currentIndex, attempts + 1)
     ELSE [currentIndex |-> currentIndex, attempts |-> attempts + 1]

\* README.md 235-266
switchToNextCookie(m, now) ==
  IF m.cookies <= 1 THEN m
  ELSE LET previousIndex == m.currentIndex
           maxAttempts == m.cookies
           found == NextAvailable(m, m.currentIndex, 0)
           reset == found.attempts >= maxAttempts
           currentIndex == IF reset THEN 0 ELSE found.currentIndex
       IN [m EXCEPT
             !.currentIndex = currentIndex,
             !.failedCookies = IF reset THEN {} ELSE @,
             !.cookieFailureCount = IF reset THEN [i \in CookieIds |-> 0] ELSE @,
             !.lastSwitchTime = IF currentIndex # previousIndex THEN now ELSE @]

\* README.md 201-230
markCookieFailed(m, now) ==
  IF m.cookies = 0 THEN m
  ELSE LET cookieId == m.currentIndex
           failureCount == m.cookieFailureCount[cookieId] + 1
           marked == [m EXCEPT
                        !.cookieFailureCount[cookieId] = failureCount,
                        !.cookieFailureTime[cookieId] = now,
                        !.failedCookies =
                           IF failureCount >= PermanentFailures
                           THEN @ \cup {cookieId} ELSE @]
           timeSinceLastSwitch == now - m.lastSwitchTime
       IN IF timeSinceLastSwitch < switchDelay THEN marked
          ELSE switchToNextCookie(marked, now)

\* README.md 271-278
markCookieSuccess(m) ==
  LET cookieId == m.currentIndex
  IN IF m.cookieFailureCount[cookieId] # 0
     THEN [m EXCEPT !.cookieFailureCount[cookieId] = 0,
                    !.failedCookies = @ \ {cookieId}]
     ELSE m

\* autoResetFailedCookies that forgets the counts and times but keeps the
\* permanently-failed marks
autoResetFailedCookies_KeepMarks(m, now) ==
  LET expired == {cookieId \in CookieIds :
                    /\ m.cookieFailureTime[cookieId] # 0
                    /\ now - m.cookieFailureTime[cookieId] >= cookieResetTime}
  IN [m EXCEPT
        !.cookieFailureCount = [i \in CookieIds |-> IF i \in expired THEN 0 ELSE @[i]],
        !.cookieFailureTime = [i \in CookieIds |-> IF i \in expired THEN 0 ELSE @[i]]]

\* README.md 297-314
autoResetFailedCookies(m, now) ==
  LET expired == {cookieId \in CookieIds :
                    /\ m.cookieFailureTime[cookieId] # 0
                    /\ now - m.cookieFailureTime[cookieId] >= cookieResetTime}
  IN [m EXCEPT
        !.failedCookies = @ \ expired,
        !.cookieFailureCount = [i \in CookieIds |-> IF i \in expired THEN 0 ELSE @[i]],
        !.cookieFailureTime = [i \in CookieIds |-> IF i \in expired THEN 0 ELSE @[i]]]

\* README.md 283-292: the cookies with an entry in cookieFailureCount are the
\* ones whose count is not 0
getStatus(m) ==
  [totalCookies |-> m.cookies,
   currentCookie |-> m.currentIndex + 1,
   failedCookies |-> m.failedCookies,
   failureCounts |-> {i \in CookieIds : m.cookieFailureCount[i] # 0}]

\* README.md 319-324
areAllCookiesRateLimited(m) ==
  LET status == getStatus(m)
  IN /\ status.totalCookies > 0
     /\ status.totalCookies = Cardinality(status.failedCookies)
     /\ \A i \in status.failureCounts : m.cookieFailureCount[i] >= 2

CookieEnv(marks, successes, waits) ==
  [now |-> ProcessStart, marksLeft |-> marks, successesLeft |-> successes,
   waitsLeft |-> waits]

\* ------------------------------------------------- the reels of a profile
\* tracking.js 596, 637: the number of reels refreshed and processed
LatestReels == 12

\* the reels of the profile upstream, in the order they were posted
Shortcodes == 1..MaxShortcodes
taken_at_timestamp(shortcode) == shortcode

\* what fetchReelData reports for every reel fetched in one run
ReelData(views, likes, comments) ==
  [view_count |-> views, like_count |-> likes, comment_count |-> comments]
ReelDatas == {ReelData(10, 3, 1), ReelData(12, 3, 0)}

NoReelRow == [exists |-> FALSE, taken_at |-> 0, view_count |-> 0,
              like_count |-> 0, comment_count |-> 0]
NoGrowth == [views |-> 0, likes |-> 0, comments |-> 0]

\* tracking.js 533-540
existingShortcodes(table) == {sc \in DOMAIN table : table[sc].exists}

\* .order("taken_at", { ascending: false }).limit(n), and sort by
\* taken_at_timestamp newest first followed by slice(0, n)
NewestFirst(shortcodes, n) ==
  {sc \in shortcodes :
     Cardinality({other \in shortcodes :
                    taken_at_timestamp(other) > taken_at_timestamp(sc)}) < n}

\* tracking.js 544-639: the reels the run goes on to process
latest12Reels(table, uniqueShortcodes, fetched) ==
  LET newShortcodes == uniqueShortcodes \ existingShortcodes(table)
      newReelsWithData == newShortcodes \cap fetched
      existingShortcodesToRefresh ==
        NewestFirst(existingShortcodes(table), LatestReels)
      refreshedReelsWithData == existingShortcodesToRefresh \cap fetched
      allReelsWithData == newReelsWithData \cup refreshedReelsWithData
  IN NewestFirst(allReelsWithData, LatestReels)

\* tracking.js 705-727, 758-760: what one reel adds to the totals of the day
ReelGrowth_FromZero(existingReel, reelData) ==
  [views |-> Max(0, Coalesce(reelData.view_count, 0)
                      - Or0(existingReel.view_count, 0)),
   likes |-> Max(0, Coalesce(reelData.like_count, 0)
                      - Or0(existingReel.like_count, 0)),
   comments |-> Max(0, Coalesce(reelData.comment_count, 0)
                         - Or0(existingReel.comment_count, 0))]

ReelGrowth(existingReel, reelData) ==
  IF existingReel.exists
  THEN [views |-> Max(0, Coalesce(reelData.view_count, 0)
                           - Or0(existingReel.view_count, 0)),
        likes |-> Max(0, Coalesce(reelData.like_count, 0)
                           - Or0(existingReel.like_count, 0)),
        comments |-> Max(0, Coalesce(reelData.comment_count, 0)
                              - Or0(existingReel.comment_count, 0))]
  ELSE NoGrowth

\* tracking.js 667-727: the totals over the reels processed
RECURSIVE TotalGrowth(_, _, _)
TotalGrowth(table, shortcodes, reelData) ==
  IF shortcodes = {} THEN NoGrowth
  ELSE LET shortcode == CHOOSE sc \in shortcodes : TRUE
           growth == ReelGrowth(table[shortcode], reelData)
           rest == TotalGrowth(table, shortcodes \ {shortcode}, reelData)
       IN [views |-> rest.views + growth.views,
           likes |-> rest.likes + growth.likes,
           comments |-> rest.comments + growth.comments]

\* tracking.js 762-792: upsert on (profile_id, shortcode)
UpsertReels(table, shortcodes, reelData) ==
  [sc \in DOMAIN table |->
     IF sc \in shortcodes
     THEN [exists |-> TRUE, taken_at |-> taken_at_timestamp(sc),
           view_count |-> reelData.view_count,
           like_count |-> reelData.like_count,
           comment_count |-> reelData.comment_count]
     ELSE table[sc]]

\* the reel step between runs
ReelRunIdle ==
  [uniqueShortcodes |-> {}, fetched |-> {}, reelData |-> ReelData(0, 0, 0),
   views_delta |-> 0, likes_delta |-> 0, comments_delta |-> 0]

\* the tables of the reel step, its last run, and what the upstream may
\* still report: the view counts fetchReelData returns and the oldest reel
\* the enumeration reaches.  ig_reel_metrics is the number of rows of a
\* reel, view_counts their view_count column in the order of insertion
Reels(runs, datas, oldests) ==
  [ig_profile_reels |-> [sc \in Shortcodes |-> NoReelRow],
   ig_reel_metrics |-> [sc \in Shortcodes |-> 0],
   view_counts |-> [sc \in Shortcodes |-> <<>>],
   run |-> ReelRunIdle,
   runsLeft |-> runs,
   datas |-> datas,
   oldests |-> oldests]

\* the other specifications leave the cookies and the many reels alone
CookiesIdle ==
  /\ cookieManager = CookieManager(0)
  /\ cookieEnv = CookieEnv(0, 0, 0)

ReelsIdle == reels = Reels(0, {}, {})

\* POST /profiles as seen by one request (routes/profiles.js 56-178): not
\* yet received
NoPost == [pc |-> "none", tracking_id |-> "", user_id |-> "",
           finalTrackingId |-> "", waitFor |-> 0, attempts |-> 0, status |-> 0,
           profile |-> ""]

\* requests are the bodies still to be received, args the customTrackingId
\* and userId fields of the job objects, by the serial of the job's promise
Posts(bodies) ==
  [requests |-> [r \in 1..Len(bodies) |->
                   [NoPost EXCEPT !.pc = "new",
                                  !.tracking_id = bodies[r].tracking_id,
                                  !.user_id = bodies[r].user_id]],
   args |-> <<>>]

PostsIdle == posts = Posts(<<>>)

SideIdle == CookiesIdle /\ ReelsIdle /\ PostsIdle

\* the queue specifications leave the tables alone
DbIdle ==
  /\ DbEmpty
  /\ updatedAtTrigger = FALSE
  /\ handles = {} /\ requests = {}
  /\ runsLeft = 0 /\ failuresLeft = 0 /\ runnerRunsLeft = 0

\* ------------------------------------------------------------------ actions
CronIdle == [pc |-> "idle", profiles |-> <<>>, i |-> 0, waitFor |-> 0]

\* queue.js 11-20: the module state once services/queue is loaded; the
\* budgets of the inputs still to come are part of the initial state
QueueLoaded(jobs, kickCount, limits) ==
  /\ jobQueue = <<>>
  /\ isProcessing = FALSE
  /\ processingJob = 0
  /\ sinceLastJob = Infinity
  /\ sinceLastError = RateLimitWindow
  /\ consecutiveRateLimitErrors = 0
  /\ running = {}
  /\ promise = [n \in 1..jobs |-> "none"]
  /\ settleCalls = [n \in 1..jobs |-> 0]
  /\ clock = 0
  /\ cron = CronIdle
  /\ kicksLeft = kickCount
  /\ rateLimitsLeft = limits
  /\ everStarted = FALSE
  /\ rateLimited = {}
  /\ rlRun = 0
  /\ rlStreak = 0
  /\ lastAdd = NoAdd
  /\ lastStart = NoStart
  /\ lastDone = NoDone

\* index.js 500-505: the server has started and armed the startup kick
InitBut(jobs, kickCount, limits) ==
  /\ QueueLoaded(jobs, kickCount, limits)
  /\ timers = SetTimeout([d \in Delays |-> 0], StartupKickDelay)

Init == InitBut(MaxJobs, MaxKicks, MaxRateLimits) /\ DbIdle /\ SideIdle

\* The continuation of an await runs as a microtask, before any other event:
\* the tick loop resumes as soon as the promise it awaits is settled.
MicrotaskReady ==
  cron.pc = "await" /\ promise[cron.waitFor] \in {"resolved", "rejected"}

\* promises still to be handed out, and those the tick will need
FreeSerials == Cardinality({n \in DOMAIN promise : promise[n] = "none"})
CronReserve == IF cron.pc = "await" THEN Len(cron.profiles) - cron.i ELSE 0

\* routes/profiles.js 98, 186: POST /profiles, POST /profiles/:username/refresh
HttpAddJob ==
  /\ ~MicrotaskReady
  /\ FreeSerials > CronReserve
  /\ \E username \in Usernames, s \in {State} :
       Becomes(addJob(s, username, TRUE, clock))
  /\ UNCHANGED <<clock, cron, kicksLeft, rateLimitsLeft>>

\* index.js 177-185: POST /queue/process
ManualKick ==
  /\ ~MicrotaskReady
  /\ kicksLeft > 0
  /\ \E s \in {State} : Becomes(processQueue(s))
  /\ kicksLeft' = kicksLeft - 1
  /\ UNCHANGED <<clock, cron, rateLimitsLeft>>

\* a due setTimeout/setImmediate callback runs processQueue
FireTimer ==
  /\ ~MicrotaskReady
  /\ timers[0] > 0
  /\ \E s \in {[State EXCEPT !.timers = [@ EXCEPT ![0] = @ - 1]]} :
       Becomes(processQueue(s))
  /\ UNCHANGED <<clock, cron, kicksLeft, rateLimitsLeft>>

\* what the upstream did, as far as the rate-limit claims distinguish it
UpstreamClass(up) ==
  IF \A a \in DOMAIN up : up[a] = "429" THEN "429"
  ELSE IF \A a \in DOMAIN up : up[a] = "429+RetryAfter" THEN "429+RetryAfter"
  ELSE "other"

\* the awaited trackProfile call of a job returns or throws (queue.js 164-227)
JobCompletes ==
  /\ ~MicrotaskReady
  /\ \E nextJob \in running, up \in Upstreams :
     \E dbOk \in IF fetchInstagramProfileData(up) = Ok THEN BOOLEAN ELSE {TRUE} :
     \E result \in {trackProfile(up, dbOk)}, s0 \in {State} :
     \E limited \in {result # Ok /\ isRateLimitError(result)} :
     \E s \in {Continuation(s0, nextJob, result)} :
       /\ limited => rateLimitsLeft > 0
       /\ rateLimitsLeft' = IF limited THEN rateLimitsLeft - 1 ELSE rateLimitsLeft
       /\ Becomes([s EXCEPT !.lastDone =
            [job |-> nextJob.promise,
             kind |-> IF result = Ok THEN "ok"
                      ELSE IF limited THEN "rate_limit" ELSE "error",
             upstream |-> UpstreamClass(up),
             counted |-> (s.consecutiveRateLimitErrors
                            = consecutiveRateLimitErrors + 1)]])
  /\ UNCHANGED <<clock, cron, kicksLeft>>

\* index.js 284-327 (daily), 394-425 (refresh), 188-219 (POST /cron/trigger);
\* the three differ only in the kick after the loop.  The tick reads the profiles and calls addJob for the first one, then
\* awaits what addJob returned
CronTick ==
  /\ ~MicrotaskReady
  /\ cron.pc = "idle"
  /\ \E profiles \in {l \in ProfileLists : FreeSerials >= Len(l)}, s0 \in {State} :
     \E s \in {addJob(s0, profiles[1], FALSE, clock)} :
       /\ Becomes(s)
       /\ cron' = [pc |-> "await", profiles |-> profiles,
                   i |-> 1, waitFor |-> s.lastAdd.ret]
  /\ UNCHANGED <<clock, kicksLeft, rateLimitsLeft>>

\* index.js 355-372: startProcessing(), setImmediate(startProcessing),
\* setTimeout(startProcessing, 500) and the forced kick after 2000 ms
DailyKicks(s) ==
  LET s1 == startProcessing(s)
  IN [s1 EXCEPT !.timers = SetTimeout(SetTimeout(setImmediate(@), CronBackupDelay),
                                      CronFinalBackupDelay)]

\* the await of addJob returns: next profile, or the end of the loop and the
\* kick that follows it (index.js 223, 355-372, 427)
CronResume ==
  /\ MicrotaskReady
  /\ IF cron.i < Len(cron.profiles)
     THEN \E s0 \in {State} :
          \E s \in {addJob(s0, cron.profiles[cron.i + 1], FALSE, clock)} :
            /\ Becomes(s)
            /\ cron' = [cron EXCEPT !.i = @ + 1, !.waitFor = s.lastAdd.ret]
     ELSE /\ \E kind \in {"daily", "refresh", "trigger"}, s \in {State} :
               Becomes(IF kind = "daily" THEN DailyKicks(s)
                       ELSE processQueue(s))
          /\ cron' = [cron EXCEPT !.pc = "done"]
  /\ UNCHANGED <<clock, kicksLeft, rateLimitsLeft>>

\* time passes; a callback that is due runs before the clock moves on by
\* as much as a Tick
Advance ==
  /\ ~MicrotaskReady
  /\ timers[0] = 0
  /\ sinceLastJob' = IF sinceLastJob = Infinity THEN Infinity
                     ELSE Min(sinceLastJob + Tick, MAX_BACKOFF_TIME)
  /\ sinceLastError' = IF consecutiveRateLimitErrors = 0 THEN sinceLastError
                       ELSE Min(sinceLastError + Tick, RateLimitWindow)
  /\ timers' = [d \in Delays |->
                  IF d = 0 THEN timers[0] + timers[Tick]
                  ELSE IF d + Tick \in Delays THEN timers[d + Tick] ELSE 0]
  /\ clock' = IF \E i \in 1..Len(jobQueue) : jobQueue[i].addedAt = clock
              THEN clock + 1 ELSE clock
  /\ lastAdd' = NoAdd /\ lastStart' = NoStart /\ lastDone' = NoDone
  /\ UNCHANGED <<jobQueue, isProcessing, processingJob,
                 consecutiveRateLimitErrors, running, promise, settleCalls,
                 cron, kicksLeft, rateLimitsLeft, everStarted, rateLimited,
                 rlRun, rlStreak>>
  /\ UNCHANGED <<dbVars, sideVars>>

Next ==
  \/ HttpAddJob
  \/ ManualKick
  \/ FireTimer
  \/ JobCompletes
  \/ CronTick
  \/ CronResume
  \/ Advance

Spec == Init /\ [][Next]_vars

\* The rate-limit storm: immediate jobs only, more of them and more
\* rate-limited runs, no tick and no manual kick
StormInit == InitBut(StormJobs, 0, StormRateLimits) /\ DbIdle /\ SideIdle

StormNext ==
  \/ HttpAddJob
  \/ FireTimer
  \/ JobCompletes
  \/ Advance

StormSpec == StormInit /\ [][StormNext]_vars

\* the event loop runs due callbacks, pipeline calls return, time passes
LiveInit == InitBut(LiveJobs, MaxKicks, LiveRateLimits) /\ DbIdle /\ SideIdle

FairSpec ==
  /\ LiveInit
  /\ [][Next]_vars
  /\ WF_vars(FireTimer)
  /\ WF_vars(JobCompletes)
  /\ WF_vars(CronResume)
  /\ WF_vars(Advance)

\* ------------------------------------------------ cron.js: its own process
\* cron.js runs in a process of its own: require("./services/queue")
\* (cron.js 27) gives that process its own jobQueue, timers and dispatcher.
\* In CronJsSpec the queue variables are the module state of that process.
Exited == cron.pc \in {"exit0", "exit1"}

\* cron.js 32-58: runCronJob reads the profiles, exits when the read fails
\* or finds nothing, and else calls addJob for the first profile and awaits
\* what it returned
RunCronJob ==
  /\ cron.pc = "idle"
  /\ \E error \in BOOLEAN, profiles \in {<<>>} \cup ProfileLists, s0 \in {State} :
       IF error
       THEN Becomes(s0) /\ cron' = [cron EXCEPT !.pc = "exit1"]
       ELSE IF Len(profiles) = 0
       THEN Becomes(s0) /\ cron' = [cron EXCEPT !.pc = "exit0"]
       ELSE \E s \in {addJob(s0, profiles[1], FALSE, clock)} :
              /\ Becomes(s)
              /\ cron' = [pc |-> "await", profiles |-> profiles,
                          i |-> 1, waitFor |-> s.lastAdd.ret]
  /\ UNCHANGED <<clock, kicksLeft, rateLimitsLeft>>

\* cron.js 56-75: the await of addJob returns or throws (the catch of line
\* 61 goes on with the loop): next profile, or process.exit(0)
CronJsResume ==
  /\ MicrotaskReady
  /\ \E s0 \in {State} :
       IF cron.i < Len(cron.profiles)
       THEN \E s \in {addJob(s0, cron.profiles[cron.i + 1], FALSE, clock)} :
              /\ Becomes(s)
              /\ cron' = [cron EXCEPT !.i = @ + 1, !.waitFor = s.lastAdd.ret]
       ELSE Becomes(s0) /\ cron' = [cron EXCEPT !.pc = "exit0"]
  /\ UNCHANGED <<clock, kicksLeft, rateLimitsLeft>>

\* the process ends when its event loop has nothing left to wait for: no
\* timer, no pipeline call, and an await on a promise nothing will settle
EventLoopDrained ==
  /\ cron.pc = "await"
  /\ promise[cron.waitFor] = "pending"
  /\ running = {}
  /\ \A d \in Delays : timers[d] = 0
  /\ \E s0 \in {State} : Becomes(s0)
  /\ cron' = [cron EXCEPT !.pc = "exit0"]
  /\ UNCHANGED <<clock, kicksLeft, rateLimitsLeft>>

\* the event loop of the process while it lives
CronJsFireTimer == ~Exited /\ FireTimer
CronJsJobCompletes == ~Exited /\ JobCompletes
CronJsAdvance == ~Exited /\ Advance

\* queue.js is loaded by cron.js 27; nothing arms a timer at start
CronJsInit ==
  /\ QueueLoaded(MaxJobs, 0, MaxRateLimits)
  /\ timers = [d \in Delays |-> 0]
  /\ DbIdle
  /\ SideIdle

CronJsNext ==
  \/ RunCronJob
  \/ CronJsResume
  \/ CronJsFireTimer
  \/ CronJsJobCompletes
  \/ CronJsAdvance
  \/ EventLoopDrained

CronJsSpec == CronJsInit /\ [][CronJsNext]_vars

\* ----------------------------------------------- tracking pipeline: actions
\* tracking.js 19-870: one call of trackProfile up to the reels, on what the
\* upstream reports; at most one write of the run is rejected by the database
trackProfileCall(username, customTrackingId, userId) ==
  /\ pipeline.pc = "idle"
  /\ runsLeft > 0
  /\ \E igData \in IgDatas, failed \in Failures :
       LET upsert == UpsertProfile(ig_profiles, username, customTrackingId,
                                   userId, calendarDate,
                                   updatedAtTrigger)
           profile_id == upsert.id
           profile == upsert.table[profile_id]
           lastSnapshot == LastSnapshot(allSnapshots(customTrackingId,
                                          ig_profile_snapshots, profile_id))
           newSnapshot == NewSnapshot(ig_profile_snapshots, profile_id, igData,
                                      calendarDate)
           linked == IF failed = "last_snapshot_id" THEN profile
                     ELSE Stamp([profile EXCEPT !.last_snapshot_id = newSnapshot.id],
                                calendarDate, updatedAtTrigger)
           existingReel == ig_profile_reels[profile_id]
           thrown == failed = "snapshot" \/ failed = "delta"
           this == [PipelineIdle EXCEPT
                      !.profile_id = profile_id,
                      !.customTrackingId = customTrackingId,
                      !.branch = upsert.branch,
                      !.failed = failed]
       IN IF upsert.error
          \* 242-295: Profile upsert failed
          THEN /\ failed = "none"
               /\ runsLeft' = runsLeft - 1
               /\ pipeline' = [PipelineIdle EXCEPT !.result = "rejected"]
               /\ UNCHANGED <<ig_profiles, ig_profile_snapshots,
                              ig_profile_deltas, ig_profile_reels,
                              ig_reel_metrics, failuresLeft>>
          ELSE
          /\ profile_id # ""
          /\ failed # "none" => failuresLeft > 0
          /\ failed = "delta" => lastSnapshot.id # 0
          /\ runsLeft' = runsLeft - 1
          /\ failuresLeft' = IF failed # "none" THEN failuresLeft - 1
                             ELSE failuresLeft
          \* 30-295
          /\ ig_profiles' = [upsert.table EXCEPT ![profile_id] =
                               IF failed = "snapshot" THEN profile ELSE linked]
          \* 390-409
          /\ ig_profile_snapshots' =
               IF failed = "snapshot" THEN ig_profile_snapshots
               ELSE Insert(ig_profile_snapshots, newSnapshot)
          \* 428-473
          /\ ig_profile_deltas' =
               IF failed \in {"snapshot", "delta"} \/ lastSnapshot.id = 0
               THEN ig_profile_deltas
               ELSE Insert(ig_profile_deltas,
                           Delta(profile_id, lastSnapshot, newSnapshot))
          \* 486-506, 698-793: a failed scrape falls back on the media of
          \* igData; a rejected upsert skips the reel
          /\ ig_profile_reels' =
               IF thrown \/ failed = "reel" THEN ig_profile_reels
               ELSE [ig_profile_reels EXCEPT ![profile_id] =
                       [exists |-> TRUE, view_count |-> igData.view_count]]
          \* 834-861
          /\ ig_reel_metrics' =
               IF thrown \/ failed \in {"reel", "reel_metrics"}
               THEN ig_reel_metrics
               ELSE Insert(ig_reel_metrics,
                           [reel_id |-> profile_id, captured_at |-> calendarDate,
                            view_count |-> igData.view_count])
          \* 1045-1048: what is thrown leaves trackProfile
          /\ pipeline' =
               IF thrown THEN [this EXCEPT !.result = "rejected"]
               ELSE [this EXCEPT
                       !.pc = "daily",
                       !.igData = igData,
                       !.updated_at = profile.updated_at,
                       !.lastSnapshot = lastSnapshot,
                       !.newSnapshot = newSnapshot,
                       !.totalDailyViewsGrowth =
                          ViewGrowth(existingReel, igData.view_count)]
  /\ UNCHANGED <<calendarDate, ig_profile_daily_metrics, runner,
                 updatedAtTrigger, handles, requests, runnerRunsLeft>>

\* routes/profiles.js 56-98, 180-186, index.js 292-327: a request reaches the
\* queue and its job runs
TrackProfile ==
  /\ \E username \in handles, request \in requests :
       trackProfileCall(username,
                        FinalTrackingId(ig_profiles, request, username),
                        request.user_id)
  /\ UNCHANGED <<queueVars, sideVars>>

\* tracking.js 879-889: the run computes today's date and reads today's row
TrackProfileDaily ==
  /\ pipeline.pc = "daily"
  /\ pipeline' = [pipeline EXCEPT
                    !.pc = "write",
                    !.todayDateString = calendarDate,
                    !.dailyRow = SelectDaily(ig_profile_daily_metrics,
                                             pipeline.profile_id, calendarDate)]
  /\ UNCHANGED <<calendarDate, ig_profiles, ig_profile_snapshots,
                 ig_profile_deltas, ig_profile_reels, ig_reel_metrics,
                 ig_profile_daily_metrics, runner, updatedAtTrigger, handles, requests, runsLeft,
                 failuresLeft, runnerRunsLeft>>
  /\ UNCHANGED <<queueVars, sideVars>>

\* tracking.js 891-1044: update of today's row or insert of a new one, then
\* return { profile, snapshot }
TrackProfileWrite ==
  /\ pipeline.pc = "write"
  /\ LET profile_id == pipeline.profile_id
         todayDateString == pipeline.todayDateString
         isFirstTracking == IsFirstTracking(todayDateString, pipeline.updated_at,
                                            pipeline.lastSnapshot)
         yesterdayRow == YesterdayRow(ig_profile_daily_metrics, profile_id,
                                      calendarDate - 1, pipeline.updated_at,
                                      isFirstTracking)
     IN ig_profile_daily_metrics' =
          IF pipeline.failed = "daily" THEN ig_profile_daily_metrics
          ELSE IF pipeline.dailyRow.exists
          THEN UpdateDaily(ig_profile_daily_metrics, profile_id, todayDateString,
                           DailyPatch(pipeline.dailyRow, pipeline.newSnapshot,
                                      pipeline.totalDailyViewsGrowth))
          ELSE InsertDaily(ig_profile_daily_metrics, profile_id, todayDateString,
                           DailyRow(yesterdayRow, pipeline.newSnapshot,
                                    pipeline.totalDailyViewsGrowth))
  /\ pipeline' = [PipelineIdle EXCEPT
                    !.profile_id = pipeline.profile_id,
                    !.failed = pipeline.failed,
                    !.newSnapshot = pipeline.newSnapshot,
                    !.result = "resolved"]
  /\ UNCHANGED <<calendarDate, ig_profiles, ig_profile_snapshots,
                 ig_profile_deltas, ig_profile_reels, ig_reel_metrics, runner,
                 updatedAtTrigger, handles, requests, runsLeft, failuresLeft, runnerRunsLeft>>
  /\ UNCHANGED <<queueVars, sideVars>>

\* part_006 712-727: the runner computes today and lists the profiles
RunnerStart ==
  /\ runner.pc = "idle"
  /\ runnerRunsLeft > 0
  /\ runnerRunsLeft' = runnerRunsLeft - 1
  /\ LET profiles == {p \in ProfileIds : ig_profiles[p].exists}
     IN runner' = IF profiles = {} THEN RunnerIdle
                  ELSE [RunnerIdle EXCEPT !.pc = "loop",
                                          !.today = calendarDate,
                                          !.profiles = profiles]
  /\ UNCHANGED <<calendarDate, ig_profiles, ig_profile_snapshots,
                 ig_profile_deltas, ig_profile_reels, ig_reel_metrics,
                 ig_profile_daily_metrics, pipeline, updatedAtTrigger, handles, requests, runsLeft,
                 failuresLeft>>
  /\ UNCHANGED <<queueVars, sideVars>>

\* what is left of the loop once a profile is done
RunnerContinue(profile_id) ==
  IF runner.profiles = {profile_id} THEN RunnerIdle
  ELSE [RunnerIdle EXCEPT !.pc = "loop", !.today = runner.today,
                          !.profiles = runner.profiles \ {profile_id}]

\* part_006 736-905: the reads for the next profile; one without any
\* snapshot is skipped
RunnerRead ==
  /\ runner.pc = "loop"
  /\ \E profile_id \in runner.profiles :
       runner' =
         IF Latest(ig_profile_snapshots, profile_id, runner.today).id = 0
         THEN RunnerContinue(profile_id)
         ELSE [runner EXCEPT
                 !.pc = "write",
                 !.profile_id = profile_id,
                 !.row = RunnerRow(ig_profile_snapshots, ig_reel_metrics,
                                   profile_id, runner.today),
                 !.existingMetrics =
                    SelectDaily(ig_profile_daily_metrics, profile_id,
                                runner.today).exists]
  /\ UNCHANGED <<calendarDate, ig_profiles, ig_profile_snapshots,
                 ig_profile_deltas, ig_profile_reels, ig_reel_metrics,
                 ig_profile_daily_metrics, pipeline, updatedAtTrigger, handles, requests, runsLeft,
                 failuresLeft, runnerRunsLeft>>
  /\ UNCHANGED <<queueVars, sideVars>>

\* part_006 907-975: update of the existing row, or insert
RunnerWrite ==
  /\ runner.pc = "write"
  /\ ig_profile_daily_metrics' =
       IF runner.existingMetrics
       THEN UpdateDaily(ig_profile_daily_metrics, runner.profile_id, runner.today,
                        [open |-> runner.row.open, close |-> runner.row.close,
                         delta |-> runner.row.delta,
                         views_delta |-> runner.row.views_delta])
       ELSE InsertDaily(ig_profile_daily_metrics, runner.profile_id,
                        runner.today, runner.row)
  /\ runner' = RunnerContinue(runner.profile_id)
  /\ UNCHANGED <<calendarDate, ig_profiles, ig_profile_snapshots,
                 ig_profile_deltas, ig_profile_reels, ig_reel_metrics, pipeline,
                 updatedAtTrigger, handles, requests, runsLeft, failuresLeft, runnerRunsLeft>>
  /\ UNCHANGED <<queueVars, sideVars>>

\* midnight (UTC) passes: new Date() falls on the next day from now on
NextDay ==
  /\ calendarDate < MaxDays
  /\ calendarDate' = calendarDate + 1
  /\ UNCHANGED <<ig_profiles, ig_profile_snapshots, ig_profile_deltas,
                 ig_profile_reels, ig_reel_metrics, ig_profile_daily_metrics,
                 pipeline, runner, updatedAtTrigger, handles, requests, runsLeft, failuresLeft,
                 runnerRunsLeft>>
  /\ UNCHANGED <<queueVars, sideVars>>

\* the tables are empty; the schema's trigger is installed or not; the
\* budgets of the runs still to come are part of the initial state
PipelineInitBut(runs, failures, runnerRuns, usernames, kinds) ==
  /\ InitBut(0, 0, 0)
  /\ SideIdle
  /\ DbEmpty
  /\ updatedAtTrigger \in BOOLEAN
  /\ handles = usernames
  /\ requests = kinds
  /\ runsLeft = runs
  /\ failuresLeft = failures
  /\ runnerRunsLeft = runnerRuns

\* two handles, tracked by the scheduler and by POST /profiles with a bare
\* username
PipelineInit ==
  PipelineInitBut(MaxRuns, 0, MaxRunnerRuns, Usernames,
                  {Scheduled, Post("", "")})

PipelineNext ==
  \/ TrackProfile
  \/ TrackProfileDaily
  \/ TrackProfileWrite
  \/ RunnerStart
  \/ RunnerRead
  \/ RunnerWrite
  \/ NextDay

PipelineSpec == PipelineInit /\ [][PipelineNext]_vars

\* the same with one write rejected by the database
FaultInit ==
  PipelineInitBut(FaultRuns, MaxFailures, FaultRunnerRuns, Usernames,
                  {Scheduled, Post("", "")})

FaultSpec == FaultInit /\ [][PipelineNext]_vars

\* one handle, tracked by the scheduler and by one user's POST /profiles
\* under two tracking ids
SessionInit ==
  PipelineInitBut(MaxRuns, 0, MaxRunnerRuns, {"alice"},
                  {Scheduled, Post("t1", "u1"), Post("t2", "u1")})

SessionSpec == SessionInit /\ [][PipelineNext]_vars

\* runs without tracking id only (the scheduler and the refresh route), the
\* daily-metrics runner left out
RefreshInit ==
  PipelineInitBut(MaxRuns, 0, 0, Usernames, {Scheduled, Refresh})

RefreshNext ==
  \/ TrackProfile
  \/ TrackProfileDaily
  \/ TrackProfileWrite
  \/ NextDay

RefreshSpec == RefreshInit /\ [][RefreshNext]_vars

\* one handle tracked by two users, and the runs without tracking id of the
\* scheduler and of POST /profiles/:username/refresh
SharedInit ==
  PipelineInitBut(MaxRuns, 0, 0, {"alice"},
                  {Scheduled, Refresh, Post("t1", "u1"), Post("t2", "u2")})

SharedSpec == SharedInit /\ [][RefreshNext]_vars

\* -------------------------------------------- POST /profiles: actions
\* routes/profiles.js 106
maxAttempts == 5

\* tracking.js 291-295
MsgProfileUpsertFailed == <<"Profile", "upsert", "failed", ":", "duplicate">>

\* two users ask for the same handle under tracking ids of their own
PostHandle == "alice"
PostBodies == <<[tracking_id |-> "t1", user_id |-> "u1"],
                [tracking_id |-> "t2", user_id |-> "u2"]>>

\* routes/profiles.js 56-98: a request is received, settles its tracking id
\* and calls addJob, then awaits the promise addJob returned.  The job
\* object keeps the customTrackingId and userId of the call that queued it
PostAddJob ==
  /\ \E r \in DOMAIN posts.requests, s0 \in {State} :
       LET req == posts.requests[r]
           finalTrackingId ==
             FinalTrackingId(ig_profiles, Post(req.tracking_id, req.user_id),
                             PostHandle)
           s == addJob(s0, PostHandle, TRUE, clock)
           jobPromise == s.lastAdd.ret
       IN /\ req.pc = "new"
          /\ QueueBecomes(s)
          /\ posts' = [posts EXCEPT
               !.requests[r] = [req EXCEPT !.pc = "await",
                                           !.finalTrackingId = finalTrackingId,
                                           !.waitFor = jobPromise],
               !.args = IF s.lastAdd.appended
                        THEN (jobPromise :> [customTrackingId |-> finalTrackingId,
                                             userId |-> req.user_id]) @@ @
                        ELSE @]
  /\ UNCHANGED <<clock, cron, kicksLeft, rateLimitsLeft>>
  /\ UNCHANGED <<dbVars, cookieManager, cookieEnv, reels>>

\* a due setTimeout/setImmediate callback runs processQueue; the job it
\* starts calls trackProfile with the fields of the job (queue.js 164)
PostFireTimer ==
  /\ timers[0] > 0
  /\ \E s \in {processQueue([State EXCEPT !.timers = [@ EXCEPT ![0] = @ - 1]])} :
       /\ QueueBecomes(s)
       /\ IF s.running # running
          THEN \E nextJob \in s.running \ running :
                 trackProfileCall(nextJob.username,
                                  posts.args[nextJob.promise].customTrackingId,
                                  posts.args[nextJob.promise].userId)
          ELSE UNCHANGED dbVars
  /\ UNCHANGED <<clock, cron, kicksLeft, rateLimitsLeft>>
  /\ UNCHANGED sideVars

\* the awaited trackProfile call of the job returns or throws (queue.js
\* 164-227)
PostJobCompletes ==
  /\ pipeline.pc = "idle"
  /\ \E nextJob \in running, s0 \in {State} :
       QueueBecomes(Continuation(s0, nextJob,
                                 IF pipeline.result = "rejected"
                                 THEN MsgProfileUpsertFailed ELSE Ok))
  /\ UNCHANGED <<clock, cron, kicksLeft, rateLimitsLeft>>
  /\ UNCHANGED <<dbVars, sideVars>>

\* routes/profiles.js 98-177: the await of addJob throws (500), or returns
\* and the request looks for the profile, one attempt of the loop of 108-160
\* at a time: by tracking id, then by username, where a row with another
\* tracking id is given the tracking id of the request
PostResume ==
  \E r \in DOMAIN posts.requests :
    LET req == posts.requests[r]
        finalTrackingId == req.finalTrackingId
        profileByTrackingId ==
          IF finalTrackingId # ""
          THEN MaybeSingleId(ByTrackingId(ig_profiles, finalTrackingId))
          ELSE ""
        profileByUsername == MaybeSingleId(ByUsername(ig_profiles, PostHandle))
        Done(status, profile) ==
          posts' = [posts EXCEPT !.requests[r] =
                      [req EXCEPT !.pc = "done", !.status = status,
                                  !.profile = profile]]
    IN /\ req.pc = "await"
       /\ promise[req.waitFor] \in {"resolved", "rejected"}
       /\ IF promise[req.waitFor] = "rejected"
          THEN Done(500, "") /\ UNCHANGED ig_profiles
          ELSE IF profileByTrackingId # ""
          THEN Done(200, profileByTrackingId) /\ UNCHANGED ig_profiles
          ELSE IF /\ profileByUsername # ""
                  /\ finalTrackingId # ""
                  /\ ig_profiles[profileByUsername].tracking_id # finalTrackingId
          \* 126-146
          THEN /\ ig_profiles' =
                    [ig_profiles EXCEPT ![profileByUsername] =
                       Stamp([@ EXCEPT !.tracking_id = finalTrackingId],
                             calendarDate, updatedAtTrigger)]
               /\ Done(200, profileByUsername)
          ELSE IF /\ profileByUsername # ""
                  /\ ig_profiles[profileByUsername].tracking_id = finalTrackingId
          THEN Done(200, profileByUsername) /\ UNCHANGED ig_profiles
          ELSE /\ UNCHANGED ig_profiles
               /\ IF req.attempts + 1 < maxAttempts
                  THEN posts' = [posts EXCEPT !.requests[r].attempts = @ + 1]
                  ELSE Done(500, "")
       /\ UNCHANGED <<calendarDate, ig_profile_snapshots, ig_profile_deltas,
                      ig_profile_reels, ig_reel_metrics,
                      ig_profile_daily_metrics, pipeline, runner,
                      updatedAtTrigger, handles, requests, runsLeft,
                      failuresLeft, runnerRunsLeft>>
       /\ UNCHANGED <<queueVars, cookieManager, cookieEnv, reels>>

\* the server with nothing tracked yet and the two requests still to come
PostInit ==
  /\ InitBut(PostJobs, 0, 0)
  /\ DbEmpty
  /\ updatedAtTrigger \in BOOLEAN
  /\ handles = {} /\ requests = {}
  /\ runsLeft = PostJobs /\ failuresLeft = 0 /\ runnerRunsLeft = 0
  /\ CookiesIdle
  /\ ReelsIdle
  /\ posts = Posts(PostBodies)

PostNext ==
  \/ PostAddJob
  \/ PostFireTimer
  \/ TrackProfileDaily
  \/ TrackProfileWrite
  \/ PostJobCompletes
  \/ PostResume
  \/ Advance

PostSpec == PostInit /\ [][PostNext]_vars

\* ------------------------------------------------ cookie rotation: actions
\* a request was rate limited or refused on the current cookie
MarkCookieFailed ==
  /\ cookieEnv.marksLeft > 0
  /\ cookieManager' = markCookieFailed(cookieManager, cookieEnv.now)
  /\ cookieEnv' = [cookieEnv EXCEPT !.marksLeft = @ - 1]
  /\ UNCHANGED <<queueVars, dbVars, reels, posts>>

\* a request went through on the current cookie
MarkCookieSuccess ==
  /\ cookieEnv.successesLeft > 0
  /\ cookieManager' = markCookieSuccess(cookieManager)
  /\ cookieEnv' = [cookieEnv EXCEPT !.successesLeft = @ - 1]
  /\ UNCHANGED <<queueVars, dbVars, reels, posts>>

\* README.md 132-134: the interval timer of the constructor fires
AutoResetFailedCookies ==
  /\ cookieManager' = autoResetFailedCookies(cookieManager, cookieEnv.now)
  /\ cookieManager' # cookieManager
  /\ UNCHANGED <<queueVars, dbVars, cookieEnv, reels, posts>>

\* time passes
CookieWait ==
  /\ cookieEnv.waitsLeft > 0
  /\ \E wait \in Waits :
       cookieEnv' = [cookieEnv EXCEPT !.now = @ + wait, !.waitsLeft = @ - 1]
  /\ UNCHANGED <<queueVars, dbVars, cookieManager, reels, posts>>

\* README.md 140-177: loadCookies finds any number of cookies
CookieInit ==
  /\ InitBut(0, 0, 0)
  /\ DbIdle
  /\ ReelsIdle
  /\ PostsIdle
  /\ \E n \in 0..MaxCookies : cookieManager = CookieManager(n)
  /\ cookieEnv = CookieEnv(MaxMarks, MaxSuccesses, MaxWaits)

CookieNext ==
  \/ MarkCookieFailed
  \/ MarkCookieSuccess
  \/ AutoResetFailedCookies
  \/ CookieWait

CookieSpec == CookieInit /\ [][CookieNext]_vars

\* ---------------------------------------------------- reel step: actions
\* tracking.js 483-868 and the three reel columns of 920-922, 1014-1016: the
\* page lists the profile's reels from the newest one (the last or the last
\* but one of Shortcodes, as the profile posts) down to some depth,
\* fetchReelData fails for at most one reel, and the reels kept are
\* upserted, get a row of ig_reel_metrics each and add to the totals of the
\* day
ProcessReels ==
  /\ reels.runsLeft > 0
  /\ \E oldest \in reels.oldests, newest \in {MaxShortcodes - 1, MaxShortcodes},
        reelData \in reels.datas :
       /\ oldest <= newest
       /\ \E failed \in {0, oldest, newest} :
            LET uniqueShortcodes == oldest..newest
                fetched == Shortcodes \ {failed}
                shortcodesToProcess ==
                  latest12Reels(reels.ig_profile_reels, uniqueShortcodes, fetched)
                total == TotalGrowth(reels.ig_profile_reels, shortcodesToProcess,
                                     reelData)
            IN reels' =
                 [reels EXCEPT
                  !.ig_profile_reels =
                    UpsertReels(reels.ig_profile_reels, shortcodesToProcess,
                                reelData),
                  !.ig_reel_metrics =
                    [sc \in Shortcodes |->
                       IF sc \in shortcodesToProcess
                       THEN reels.ig_reel_metrics[sc] + 1
                       ELSE reels.ig_reel_metrics[sc]],
                  \* 834-843
                  !.view_counts =
                    [sc \in Shortcodes |->
                       IF sc \in shortcodesToProcess
                       THEN Append(reels.view_counts[sc], reelData.view_count)
                       ELSE reels.view_counts[sc]],
                  !.run = [uniqueShortcodes |-> uniqueShortcodes,
                           fetched |-> fetched,
                           reelData |-> reelData,
                           views_delta |-> total.views,
                           likes_delta |-> total.likes,
                           comments_delta |-> total.comments],
                  !.runsLeft = reels.runsLeft - 1]
  /\ UNCHANGED <<queueVars, dbVars, cookieManager, cookieEnv, posts>>

ReelInit ==
  /\ InitBut(0, 0, 0)
  /\ DbIdle
  /\ CookiesIdle
  /\ PostsIdle
  /\ reels = Reels(MaxReelRuns, ReelDatas, Shortcodes)

ReelNext == ProcessReels

ReelSpec == ReelInit /\ [][ReelNext]_vars

\* the newest reels only, over more runs, with a view count that fetchReelData
\* may report as unavailable (tracking.js 682)
NullViewInit ==
  /\ InitBut(0, 0, 0)
  /\ DbIdle
  /\ CookiesIdle
  /\ PostsIdle
  /\ reels = Reels(NullViewRuns, ReelDatas \cup {ReelData(Null, 3, 1)},
                   {MaxShortcodes - 1, MaxShortcodes})

NullViewSpec == NullViewInit /\ [][ReelNext]_vars

\* ------------------------------------------------------------------- claims
InQueue(p) == \E i \in 1..Len(jobQueue) : jobQueue[i].promise = p
Waiting(p) == \E i \in 1..Len(jobQueue) :
                jobQueue[i].promise = p /\ ~jobQueue[i].completed
InFlight(p) == \E r \in running : r.promise = p
Settled(p) == promise[p] \in {"resolved", "rejected"}

\* C1: at no instant are the pipeline calls of two jobs outstanding,
\* whatever the interleaving of adds, wake-ups, kicks and completions.
C1_AtMostOneInFlight == Cardinality(running) <= 1

\* a job is running, another one is waiting and a wake-up is due
C1_Witness ==
  /\ Cardinality(running) = 1
  /\ queueSize(State) > 0
  /\ timers[0] > 0
  /\ kicksLeft < MaxKicks

\* C2: after the dispatcher step that handled a rate-limited run, the job is
\* still in the queue, not completed.
C2_RateLimitedJobRequeued ==
  lastDone.kind = "rate_limit" => Waiting(lastDone.job)

\* C3: every Future is eventually settled once the upstream stops
\* rate-limiting; in particular that of a job whose run was rate-limited.
C3_RateLimitedFutureSettles ==
  \A p \in 1..LiveJobs : (p \in rateLimited) ~> Settled(p)

\* the spacing the claim requires before a start, given the counter of
\* consecutive rate-limit errors in force
EffectiveSpacing(k) ==
  IF k > 0
  THEN Max(MIN_TIME_BETWEEN_JOBS, Min(MIN_TIME_BETWEEN_JOBS * Pow(2, k), 30 * 60 * 1000))
  ELSE MIN_TIME_BETWEEN_JOBS

\* C4: every job start but the first of the process comes at least the
\* effective spacing after the previous start.
C4_Spacing ==
  lastStart.job # 0 =>
    \/ lastStart.first
    \/ lastStart.gap >= EffectiveSpacing(lastStart.errs)

\* an immediate job is started, not as the first one, under backoff
C4_Witness ==
  /\ lastStart.job # 0
  /\ ~lastStart.first
  /\ lastStart.errs > 0
  /\ \E r \in running : r.promise = lastStart.job /\ r.immediate

C6_DedupUnfinished ==
  (lastAdd.ret # 0 /\ (lastAdd.waiting # 0 \/ lastAdd.inFlight # 0)) =>
    /\ ~lastAdd.appended
    /\ lastAdd.ret \in {lastAdd.waiting, lastAdd.inFlight}

\* C6 as amended: addJob for a username that has a job waiting in the queue
\* appends nothing and returns that job's promise.
C6_DedupWaiting ==
  (lastAdd.ret # 0 /\ lastAdd.waiting # 0) =>
    /\ ~lastAdd.appended
    /\ lastAdd.ret = lastAdd.waiting

\* addJob was called for a username whose job was waiting
C6_Witness == lastAdd.ret # 0 /\ lastAdd.waiting # 0

\* C7: a tick is never suspended on the unfinished job of a profile it has
\* enqueued: it goes on to the next profile without waiting.
C7_TickDoesNotWait ==
  ~(cron.pc = "await" /\ promise[cron.waitFor] = "pending")

\* C8: after a tick, addJob is eventually called for every enumerated
\* profile.
C8_EveryProfileEnqueued ==
  (cron.pc = "await") ~> (cron.i = Len(cron.profiles))

\* C9: a fetch answered 429 on every attempt is handled as a rate limit:
\* the counter goes up by one and the promise is not rejected.
C9_All429IsRateLimit ==
  lastDone.upstream \in {"429", "429+RetryAfter"} =>
    /\ lastDone.counted
    /\ promise[lastDone.job] # "rejected"

\* C10: a job whose run ended in success or in a non-rate-limit failure is
\* out of the queue, its promise is settled (resolved on success, rejected on
\* failure) by exactly one call, and it is never started again.
C10_SettledOnceAndRemoved ==
  /\ \A p \in DOMAIN promise :
       Settled(p) => settleCalls[p] = 1 /\ ~InQueue(p) /\ ~InFlight(p)
  /\ lastDone.kind = "ok" => promise[lastDone.job] = "resolved"
  /\ lastDone.kind = "error" => promise[lastDone.job] = "rejected"
  /\ lastStart.job # 0 => ~lastStart.settled

\* a run ended in a non-rate-limit failure while another job was queued
C10_Witness == lastDone.kind = "error" /\ Len(jobQueue) > 0

\* the job whose start the step recorded, and the jobs still pending then
Started == CHOOSE r \in running : r.promise = lastStart.job
Before(a, b) ==
  \/ a.immediate /\ ~b.immediate
  \/ a.immediate = b.immediate /\ a.addedAt < b.addedAt

\* C11: the job the dispatcher starts is first among the pending jobs in the
\* order immediate before non-immediate, then ascending addedAt.
C11_StartsFirstInOrder ==
  lastStart.job # 0 =>
    \A i \in 1..Len(jobQueue) :
      ~jobQueue[i].completed => ~Before(jobQueue[i], Started)

\* an immediate job is started while a non-immediate job added earlier is
\* still pending
C11_Witness ==
  /\ lastStart.job # 0
  /\ Started.immediate
  /\ \E i \in 1..Len(jobQueue) :
       /\ ~jobQueue[i].completed
       /\ ~jobQueue[i].immediate
       /\ jobQueue[i].addedAt < Started.addedAt

\* C12: when the dispatcher evaluates a pending job an hour or more after
\* the most recent rate-limit error, it starts the job in that step, no
\* sooner than the base spacing after the previous start, and the
\* consecutive-error counter is zero afterwards.
C12_StaleBackoffForgotten ==
  (lastStart.eval /\ lastStart.errs > 0 /\ lastStart.sinceErr >= RateLimitWindow) =>
    /\ lastStart.job # 0
    /\ lastStart.first \/ lastStart.gap >= MIN_TIME_BETWEEN_JOBS
    /\ consecutiveRateLimitErrors = 0

\* a job is evaluated and started with two errors counted, over an hour ago
C12_Witness ==
  /\ lastStart.eval
  /\ lastStart.errs = 2
  /\ lastStart.sinceErr >= RateLimitWindow
  /\ lastStart.job # 0

\* the trackProfile call that has just got past its Delta step
PastDelta == pipeline.pc = "idle" /\ pipeline'.pc = "daily"

PastSnapshot == {"last_snapshot_id", "delta", "scrape", "reel", "reel_metrics",
                 "daily"}

\* C14: a run in which a step after the Snapshot insert failed still
\* resolves, with the new Snapshot, instead of failing.
C14_LaterFailureSkipped ==
  (pipeline.pc = "idle" /\ pipeline.failed \in PastSnapshot) =>
    /\ pipeline.result = "resolved"
    /\ pipeline.newSnapshot.id # 0

\* table t has only grown in the step: its rows are still there, unchanged
OnlyGrown(before, after) ==
  /\ Len(after) >= Len(before)
  /\ SubSeq(after, 1, Len(before)) = before

\* C15: no step of a pipeline run or of a daily-metrics run updates or
\* deletes a Snapshot, Delta or ReelMetric row: the rows present before the
\* step are all present after it, with the same contents.
C15_AppendOnly ==
  [][/\ OnlyGrown(ig_profile_snapshots, ig_profile_snapshots')
     /\ OnlyGrown(ig_profile_deltas, ig_profile_deltas')
     /\ OnlyGrown(ig_reel_metrics, ig_reel_metrics')]_vars

\* several runs of one profile and a daily-metrics run have written rows
C15_Witness ==
  /\ Len(ig_profile_snapshots) >= 3
  /\ Len(ig_profile_deltas) >= 2
  /\ Len(ig_reel_metrics) >= 3
  /\ pipeline.pc = "idle"
  /\ runner.pc = "idle" /\ runnerRunsLeft = 0
  /\ \E key \in DOMAIN ig_profile_daily_metrics :
       ig_profile_daily_metrics[key].exists

\* C16: once today's DailyMetric row of a profile exists, no step taken
\* during that day changes its open values.
C16_OpenNeverOverwritten ==
  [][\A key \in DOMAIN ig_profile_daily_metrics :
       (/\ ig_profile_daily_metrics[key].exists
        /\ key[2] = calendarDate
        /\ calendarDate' = calendarDate)
       => ig_profile_daily_metrics'[key].open
            = ig_profile_daily_metrics[key].open]_vars

\* the DailyMetric row a step may write: the one of the profile and of the
\* date computed as today by the run taking the step
WrittenBy(key) ==
  \/ pipeline.pc = "write"
       /\ key = <<pipeline.profile_id, pipeline.todayDateString>>
  \/ runner.pc = "write" /\ key = <<runner.profile_id, runner.today>>

\* C17: a step of the pipeline or of the daily-metrics runner changes no
\* DailyMetric row other than the one of (its profile, the date it computed
\* as today): rows of other dates or of other profiles stay as they are.
C17_OnlyTodaysRow ==
  [][\A key \in DOMAIN ig_profile_daily_metrics :
       ig_profile_daily_metrics'[key] # ig_profile_daily_metrics[key]
         => WrittenBy(key)]_vars

\* the pipeline has updated the row of day 2 of p1 (only its update leaves
\* a delta that is not close - open) while p1's row of day 1 and p2's row
\* of day 2 exist
C17_Witness ==
  /\ pipeline.pc = "idle" /\ pipeline.result = "resolved"
  /\ ig_profile_daily_metrics[<<"p1", 1>>].exists
  /\ ig_profile_daily_metrics[<<"p2", 2>>].exists
  /\ ig_profile_daily_metrics[<<"p1", 2>>].exists
  /\ ig_profile_daily_metrics[<<"p1", 2>>].open.following = 0
  /\ ig_profile_daily_metrics[<<"p1", 2>>].close.following = 5
  /\ ig_profile_daily_metrics[<<"p1", 2>>].delta.following = 0

\* the pipeline's update of today's existing row has just been made
PipelineUpdated ==
  pipeline.pc = "write" /\ pipeline.dailyRow.exists /\ pipeline'.pc = "idle"

\* C18: after the pipeline has updated today's existing row, each of the
\* four metrics has close = the new Snapshot's value and delta = close - open.
C18_CloseAndDelta ==
  [][PipelineUpdated =>
       LET row == ig_profile_daily_metrics'[<<pipeline.profile_id,
                                              pipeline.todayDateString>>]
       IN \A m \in Metrics :
            /\ row.close[m] = pipeline.newSnapshot[m]
            /\ row.delta[m] = row.close[m] - row.open[m]]_vars

\* the pipeline has just inserted the row of a new day
PipelineInserted ==
  /\ pipeline.pc = "write" /\ pipeline'.pc = "idle"
  /\ ~ig_profile_daily_metrics[<<pipeline.profile_id,
                                 pipeline.todayDateString>>].exists
  /\ ig_profile_daily_metrics'[<<pipeline.profile_id,
                                 pipeline.todayDateString>>].exists

\* the dates before day on which the profile has a row
EarlierRows(profile_id, day) ==
  {d \in Days : d < day /\ ig_profile_daily_metrics[<<profile_id, d>>].exists}

\* C19: the row the pipeline inserts for a new day opens at yesterday's
\* close when yesterday's row exists, with or without tracking id; without
\* yesterday's row it opens at the most recent earlier close, unless the run
\* is the first tracking of the profile's session: only then open = close =
\* current and delta = 0.
C19_OpenOfNewDay ==
  [][PipelineInserted =>
       LET profile_id == pipeline.profile_id
           day == pipeline.todayDateString
           row == ig_profile_daily_metrics'[<<profile_id, day>>]
           earlier == EarlierRows(profile_id, day)
           recent == CHOOSE d \in earlier : \A e \in earlier : e <= d
           first == Len(OfProfile(ig_profile_snapshots, profile_id)) = 1
       IN IF earlier # {}
          THEN row.open = ig_profile_daily_metrics[<<profile_id, recent>>].close
          ELSE first => /\ row.open = row.close
                        /\ row.delta = Zero
                        /\ \A m \in Metrics :
                             row.close[m] = pipeline.newSnapshot[m]]_vars

\* C20: once the calendar date is past D, no step changes the existing
\* DailyMetric row of date D, whichever run takes the step.
C20_PastRowsFrozen ==
  [][\A key \in DOMAIN ig_profile_daily_metrics :
       (ig_profile_daily_metrics[key].exists /\ key[2] < calendarDate)
         => ig_profile_daily_metrics'[key] = ig_profile_daily_metrics[key]]_vars

\* the rows of a profile in the tables that are keyed by nothing
SnapshotsOf(p) == OfProfile(ig_profile_snapshots, p)
DeltasOf(p) == OfProfile(ig_profile_deltas, p)
ReelMetricsOf(p) == SelectSeq(ig_reel_metrics, LAMBDA r : r.reel_id = p)
DailyKeysOf(p) ==
  {key \in DOMAIN ig_profile_daily_metrics :
     key[1] = p /\ ig_profile_daily_metrics[key].exists}

\* no run is in progress, and the two runs made for the handle of row p, a
\* handle first seen today, were both made today on the same upstream data
RunTwiceToday(p) ==
  /\ pipeline.pc = "idle"
  /\ ig_profiles[p].exists /\ ig_profiles[p].created_at = calendarDate
  /\ Len(SnapshotsOf(p)) = 2
  /\ \A i \in 1..2 : SnapshotsOf(p)[i].captured_at = calendarDate
  /\ \A m \in Metrics : SnapshotsOf(p)[1][m] = SnapshotsOf(p)[2][m]
  /\ Len(ReelMetricsOf(p)) = 2
  /\ ReelMetricsOf(p)[1].view_count = ReelMetricsOf(p)[2].view_count

\* C21: two consecutive runs without tracking id for a new handle, on the
\* same day and with identical upstream data, leave one Delta whose four
\* diffs are zero, the Reel row with the counts of the first run, two
\* ReelMetric rows, and one DailyMetric row, today's, with close = open,
\* delta = 0 and views_delta = 0.
C21_IdempotentRerun ==
  \A p \in ProfileIds :
    RunTwiceToday(p) =>
      /\ Len(DeltasOf(p)) = 1
      /\ DeltasOf(p)[1].base_snapshot_id = SnapshotsOf(p)[1].id
      /\ DeltasOf(p)[1].compare_snapshot_id = SnapshotsOf(p)[2].id
      /\ DeltasOf(p)[1].followers_diff = 0
      /\ DeltasOf(p)[1].following_diff = 0
      /\ DeltasOf(p)[1].media_diff = 0
      /\ DeltasOf(p)[1].clips_diff = 0
      /\ ig_profile_reels[p].exists
      /\ ig_profile_reels[p].view_count = ReelMetricsOf(p)[1].view_count
      /\ DailyKeysOf(p) = {<<p, calendarDate>>}
      /\ LET row == ig_profile_daily_metrics[<<p, calendarDate>>]
         IN /\ row.close = row.open
            /\ row.delta = Zero
            /\ row.views_delta = 0

\* the handle of row p1, first seen on day 2, has been run twice that day on
\* the same data
C21_Witness ==
  /\ calendarDate = 2
  /\ RunTwiceToday("p1")
  /\ SnapshotsOf("p1")[1].followers = 107
  /\ Len(DeltasOf("p1")) = 1

\* the snapshot with the given id
SnapshotById(id) ==
  ig_profile_snapshots'[CHOOSE i \in 1..Len(ig_profile_snapshots') :
                          ig_profile_snapshots'[i].id = id]

\* a Delta has been written in this step
DeltaWritten == Len(ig_profile_deltas') = Len(ig_profile_deltas) + 1

\* C22: every Delta written for a Profile has a base Snapshot captured
\* within the Profile's current tracking session: base.captured_at is not
\* before Profile.updated_at at the time the Delta is written.
C22_DeltaBaseInSession ==
  [][DeltaWritten =>
       LET written == ig_profile_deltas'[Len(ig_profile_deltas')]
       IN SnapshotById(written.base_snapshot_id).captured_at
            >= ig_profiles'[written.profile_id].updated_at]_vars

\* the tracking ids a caller can supply
CallerIds == {r.tracking_id : r \in requests} \ {""}

\* a run has just got past its Delta step on the row of a session that a
\* caller's tracking id opened and that already holds a Snapshot of it; the
\* run carries that tracking id or none
LaterRunOfSession ==
  /\ PastDelta
  /\ LET p == pipeline'.profile_id
     IN /\ ig_profiles[p].exists
        /\ ig_profiles[p].tracking_id \in CallerIds
        /\ pipeline'.customTrackingId \in {"", ig_profiles[p].tracking_id}
        /\ \E i \in 1..Len(ig_profile_snapshots) :
             /\ ig_profile_snapshots[i].profile_id = p
             /\ ig_profile_snapshots[i].captured_at >= ig_profiles[p].updated_at

\* C23: in a session opened with a caller's tracking id, every run after the
\* first (by POST /profiles with the same id, a refresh or the scheduler)
\* writes exactly one Delta.
C23_LaterRunsWriteDelta ==
  [][LaterRunOfSession =>
       /\ Len(ig_profile_deltas') = Len(ig_profile_deltas) + 1
       /\ ig_profile_deltas'[Len(ig_profile_deltas')].profile_id
            = pipeline'.profile_id]_vars

\* the run that has reset the session of an already tracked handle by a new
\* tracking id has just got past its Delta step
ResetRunPastDelta == PastDelta /\ pipeline'.branch = "reset"

\* the same run has just written today's DailyMetric row
ResetRunWritten ==
  pipeline.pc = "write" /\ pipeline.branch = "reset" /\ pipeline'.pc = "idle"

\* C24: the first run after a session reset by a new tracking id writes a
\* Snapshot and no Delta, and leaves the Profile's DailyMetric row for today
\* with followers delta = 0, also when the Profile was already tracked that
\* day.
C24_ResetRunStartsAtZero ==
  [][/\ ResetRunPastDelta =>
          /\ Len(ig_profile_snapshots') = Len(ig_profile_snapshots) + 1
          /\ ig_profile_deltas' = ig_profile_deltas
     /\ ResetRunWritten =>
          LET row == ig_profile_daily_metrics'[<<pipeline.profile_id,
                                                 pipeline.todayDateString>>]
          IN row.exists /\ row.delta.followers = 0]_vars

\* what GET /profiles/tracking/:tracking_id reads after this step for the
\* session that the step has opened on an already tracked handle
ReadOfNewSession ==
  TrackingRead(ig_profiles', ig_profile_snapshots', ig_profile_deltas',
               ig_profile_daily_metrics', calendarDate',
               ig_profiles'[pipeline'.profile_id].tracking_id)

\* C25: no Snapshot, Delta or DailyMetric row written before the start of
\* the session is returned by the session-scoped read: right after the step
\* that opens a session, the Snapshot and the Delta it returns are not older
\* than Profile.updated_at, and it returns no DailyMetric row, none having
\* been written in the session yet.
C25_SessionScopedRead ==
  [][ResetRunPastDelta =>
       LET session == ig_profiles'[pipeline'.profile_id]
           read == ReadOfNewSession
       IN /\ read.status = 200
          /\ read.snapshot.id # 0 => read.snapshot.captured_at >= session.updated_at
          /\ \A i \in 1..Len(read.delta) :
               SnapshotById(read.delta[i].compare_snapshot_id).captured_at
                 >= session.updated_at
          /\ ~read.dailyMetrics.exists]_vars

\* C26: Profile.updated_at changes only when a tracking session is opened or
\* reassigned: a step that leaves a Profile's tracking id as it was (a run
\* that re-uses it or carries none) leaves its updated_at unchanged.
C26_UpdatedAtIsSessionStart ==
  [][\A p \in ProfileIds :
       (ig_profiles[p].exists
          /\ ig_profiles'[p].tracking_id = ig_profiles[p].tracking_id)
         => ig_profiles'[p].updated_at = ig_profiles[p].updated_at]_vars

\* markCookieFailed has just been called on a pool that has a current cookie
MarkCalled ==
  cookieEnv'.marksLeft = cookieEnv.marksLeft - 1 /\ cookieManager.cookies > 0

\* the cookies of the pool other than the current one
OtherCookies ==
  {i \in CookieIds : i < cookieManager.cookies /\ i # cookieManager.currentIndex}

\* C29: one markCookieFailed call increases the failure count of the cookie
\* that was current at the call by exactly one and leaves the failure counts
\* and the permanently-failed marks of all other cookies unchanged.
C29_MarkFailureFrame ==
  [][MarkCalled =>
       /\ cookieManager'.cookieFailureCount[cookieManager.currentIndex]
            = cookieManager.cookieFailureCount[cookieManager.currentIndex] + 1
       /\ \A i \in OtherCookies :
            /\ cookieManager'.cookieFailureCount[i]
                 = cookieManager.cookieFailureCount[i]
            /\ i \in cookieManager'.failedCookies
                 <=> i \in cookieManager.failedCookies]_vars

\* the next cookie after the current one in ring order that is not marked
\* permanently failed, -1 when every other cookie is
NextInRing ==
  LET n == cookieManager.cookies
      ahead == {k \in 1..(n - 1) :
                  (cookieManager.currentIndex + k) % n
                     \notin cookieManager.failedCookies}
  IN IF ahead = {} THEN -1
     ELSE (cookieManager.currentIndex
             + (CHOOSE k \in ahead : \A j \in ahead : k <= j)) % n

\* C30: after every markCookieFailed call on a pool of at least two cookies
\* of which at least one other is not permanently failed, the current cookie
\* is another one than before the call and is not permanently failed: the
\* next such cookie in ring order.
C30_MarkFailureSwitches ==
  [][(MarkCalled /\ cookieManager.cookies >= 2 /\ NextInRing # -1) =>
       /\ cookieManager'.currentIndex # cookieManager.currentIndex
       /\ cookieManager'.currentIndex \notin cookieManager'.failedCookies
       /\ cookieManager'.currentIndex = NextInRing]_vars

\* a run of the reel step has just ended
ReelsProcessed == reels'.runsLeft = reels.runsLeft - 1

\* the reels the run has processed, and those of them that had a row before
Processed ==
  {sc \in Shortcodes : reels'.ig_reel_metrics[sc] = reels.ig_reel_metrics[sc] + 1}
ProcessedKnown == Processed \cap existingShortcodes(reels.ig_profile_reels)

\* the growth of one counter over reels that had a row before the run
RECURSIVE Grown(_, _)
Grown(shortcodes, column) ==
  IF shortcodes = {} THEN 0
  ELSE LET sc == CHOOSE one \in shortcodes : TRUE
       IN Max(0, reels'.run.reelData[column] - reels.ig_profile_reels[sc][column])
            + Grown(shortcodes \ {sc}, column)

\* C27: a reel without a persisted row when it is processed adds nothing to
\* the totals of the day: the views_delta, likes_delta and comments_delta of
\* the run are the growth of the reels that had a row before the run.
C27_NewReelsAddNothing ==
  [][ReelsProcessed =>
       /\ reels'.run.views_delta = Grown(ProcessedKnown, "view_count")
       /\ reels'.run.likes_delta = Grown(ProcessedKnown, "like_count")
       /\ reels'.run.comments_delta = Grown(ProcessedKnown, "comment_count")]_vars

\* the second run has processed the new reel 13 next to eleven reels of the
\* first run, each of which has grown by two views
C27_Witness ==
  /\ reels.runsLeft = 0
  /\ reels.ig_reel_metrics[13] = 1
  /\ reels.ig_profile_reels[13].view_count = 12
  /\ reels.ig_reel_metrics[12] = 2
  /\ reels.run.views_delta = 22
  /\ reels.run.likes_delta = 0
  /\ reels.run.comments_delta = 0

\* C28: every shortcode of the enumeration that is not yet persisted for the
\* Profile and whose detail fetch succeeds has a Reel row and one new
\* ReelMetric row by the end of the run, however many reels are persisted.
C28_NewReelsPersisted ==
  [][ReelsProcessed =>
       \A sc \in (reels'.run.uniqueShortcodes
                    \ existingShortcodes(reels.ig_profile_reels))
                 \cap reels'.run.fetched :
         /\ reels'.ig_profile_reels[sc].exists
         /\ reels'.ig_reel_metrics[sc] = reels.ig_reel_metrics[sc] + 1]_vars

\* the cookies of the pool
Pool == {i \in CookieIds : i < cookieManager.cookies}

\* C31: on a pool that has cookies, areAllCookiesRateLimited() returns true
\* exactly when every cookie of the pool has at least 2 recorded failures,
\* whether or not any of them has reached the 3 failures that mark it as
\* permanently failed.
C31_AllRateLimitedAtTwo ==
  cookieManager.cookies > 0 =>
    (areAllCookiesRateLimited(cookieManager)
       <=> \A i \in Pool : cookieManager.cookieFailureCount[i] >= 2)

\* the timer of the constructor has just fired and reset something
TimerFired == cookieEnv' = cookieEnv /\ cookieManager' # cookieManager

\* the cookies whose last failure is 60 minutes or more ago
Expired ==
  {i \in Pool : /\ cookieManager.cookieFailureTime[i] # 0
                /\ cookieEnv.now - cookieManager.cookieFailureTime[i]
                     >= cookieResetTime}

\* C32: when the auto-reset timer fires 60 minutes or more after the last
\* failure of a permanently failed cookie, the cookie is no longer marked
\* permanently failed, its failure count is zero, and the rotation stops on
\* it again when it is the next cookie in the ring.
C32_HardFailIsSoft ==
  [][TimerFired =>
       \A i \in Expired \cap cookieManager.failedCookies :
         /\ i \notin cookieManager'.failedCookies
         /\ cookieManager'.cookieFailureCount[i] = 0
         /\ cookieManager.cookies >= 2 =>
              NextAvailable(cookieManager',
                            (i + cookieManager.cookies - 1) % cookieManager.cookies,
                            0).currentIndex = i]_vars

\* four failures in one instant on a pool of two cookies switched to the
\* second cookie and marked it permanently failed; an hour later the timer
\* has reset it
C32_Witness ==
  /\ cookieManager.cookies = 2
  /\ cookieEnv.marksLeft = MaxMarks - 4
  /\ cookieEnv.successesLeft = MaxSuccesses
  /\ cookieEnv.waitsLeft = MaxWaits - 1
  /\ cookieManager.currentIndex = 1
  /\ \A i \in Pool : /\ cookieManager.cookieFailureTime[i] = 0
                     /\ cookieManager.cookieFailureCount[i] = 0
  /\ cookieManager.failedCookies = {}

\* the pipeline call of a job has just thrown an error that is no rate limit
FailedOtherwise == lastDone'.job # 0 /\ lastDone'.kind = "error"

\* C37: a job that fails with an error that is no rate-limit error leaves
\* the count of consecutive rate-limit errors unchanged, so the backoff
\* earned by rate limits is not cancelled by an unrelated failure.
C37_OtherFailureKeepsCount ==
  [][FailedOtherwise =>
       consecutiveRateLimitErrors' = consecutiveRateLimitErrors]_vars

\* some setImmediate or setTimeout callback of the dispatcher is outstanding
WakeUpOutstanding == \E d \in Delays : timers[d] > 0

\* a job is pending, none is running and no wake-up is outstanding
PendingWithoutWakeUp ==
  queueSize(State) > 0 /\ ~isProcessing /\ ~WakeUpOutstanding

\* C34: whenever the queue holds a pending job and no job is running, at
\* least one dispatcher wake-up (setImmediate or timer) is outstanding, so
\* that, when no manual kick ever arrives, every pending job is eventually
\* started.
C34_WakeUpsStartEveryJob ==
  /\ [](~PendingWithoutWakeUp)
  /\ \/ <>(kicksLeft < MaxKicks)
     \/ \A p \in 1..LiveJobs : Waiting(p) ~> InFlight(p)

\* C33: the process that runs cron.js only enqueues and exits: it never
\* starts a tracking pipeline run, and the jobs it enqueued are left to the
\* dispatcher of the API process.
C33_CronJsOnlyEnqueues == ~everStarted /\ running = {}

\* two rows of ig_profiles carry the same username for two users
SharedHandle ==
  \E p, q \in ProfileIds :
    /\ ig_profiles[p].exists /\ ig_profiles[q].exists
    /\ ig_profiles[p].username = ig_profiles[q].username
    /\ ig_profiles[p].user_id # "" /\ ig_profiles[q].user_id # ""
    /\ ig_profiles[p].user_id # ig_profiles[q].user_id

\* trackProfile has just been called without a tracking id (a scheduler tick
\* or a refresh)
RunWithoutTrackingId ==
  runsLeft' = runsLeft - 1 /\ pipeline'.customTrackingId = ""

\* C36: when two rows of ig_profiles share the handle, a run for that handle
\* without tracking id still completes its profile step and writes a new
\* snapshot.
C36_SharedHandleRunCompletes ==
  [][(RunWithoutTrackingId /\ SharedHandle) =>
       /\ pipeline'.result # "rejected"
       /\ Len(ig_profile_snapshots') = Len(ig_profile_snapshots) + 1]_vars

\* the id of the snapshot inserted last for the profile
LatestSnapshotId(p) == SnapshotsOf(p)[Len(SnapshotsOf(p))].id

\* C38: whenever no trackProfile call is in progress, every profile that has
\* a snapshot carries in last_snapshot_id the id of the snapshot inserted
\* last for it, also after a run that failed.
C38_LastSnapshotIdIsLatest ==
  pipeline.pc = "idle" =>
    \A p \in ProfileIds :
      (ig_profiles[p].exists /\ Len(SnapshotsOf(p)) > 0) =>
        ig_profiles[p].last_snapshot_id = LatestSnapshotId(p)



\* the view_count that reel sc had in its row before its last one
LastKnownViews(sc) ==
  reels.view_counts[sc][Len(reels.view_counts[sc]) - 1]

\* the last run reported the view counts as unavailable, and this run reports,
\* for every reel it saves, the view count the reel had before that
NullThenUnchanged ==
  /\ ReelsProcessed
  /\ reels.run.reelData.view_count = Null
  /\ reels'.run.reelData.view_count # Null
  /\ \E sc \in Shortcodes : reels'.ig_reel_metrics[sc] # reels.ig_reel_metrics[sc]
  /\ \A sc \in Shortcodes :
       reels'.ig_reel_metrics[sc] # reels.ig_reel_metrics[sc] =>
         /\ Len(reels.view_counts[sc]) >= 2
         /\ reels.view_counts[sc][Len(reels.view_counts[sc])] = Null
         /\ LastKnownViews(sc) = reels'.run.reelData.view_count

\* C39: when a reel's view count is unavailable (null) in one run and comes
\* back in the next run with the value it last had, the two runs together add
\* nothing to the accumulated views growth
C39_NullThenUnchangedAddsNothing ==
  [][NullThenUnchanged =>
       reels.run.views_delta + reels'.run.views_delta = 0]_vars


\* both POST /profiles requests have been answered with success
BothAnswered ==
  \A r \in DOMAIN posts.requests :
    posts.requests[r].pc = "done" /\ posts.requests[r].status = 200

\* the tracking id of request r resolves to exactly one row, the row of the
\* user who sent it
ResolvesToOwnProfile(r) ==
  \E p \in ProfileIds :
    /\ ByTrackingId(ig_profiles, posts.requests[r].tracking_id) = {p}
    /\ ig_profiles[p].username = PostHandle
    /\ ig_profiles[p].user_id = posts.requests[r].user_id

\* C35: once the POST /profiles requests of two users for one handle, sent
\* with tracking ids of their own, have both been answered, the handle has
\* two rows in ig_profiles, one per (user, tracking id), and each tracking id
\* resolves to the row of its own user
C35_OneProfilePerUser ==
  BothAnswered =>
    /\ Cardinality(ByUsername(ig_profiles, PostHandle)) = 2
    /\ \A r \in DOMAIN posts.requests : ResolvesToOwnProfile(r)

====
